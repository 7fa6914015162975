-------------------------- MODULE DashboardProofs --------------------------
(***************************************************************************)
(* What holds of the dashboard for any tables, viewers, pages and clicks.  *)
(***************************************************************************)
EXTENDS Dashboard, TLAPS, SequenceTheorems, FunctionTheorems, FiniteSetTheorems,
        WellFoundedInduction

-----------------------------------------------------------------------------
(* What is stored, sent and shown.                                         *)

\* What may be stored under a key.
Fits(k, v) ==
  /\ k = "points" => v \in [Users -> Int]
  /\ k = Ui => StepOf(v) \in Steps
  /\ k = Queue => Listed(v) \subseteq Redeems
  /\ k \in Tables => v = absent \/ IsTable(k, v)

\* A table that is saved is the one it was computed from, but for the entry
\* that was edited, or the two names of a rename.
IsEdit(k, base, v) ==
  /\ IsTable(k, v)
  /\ Cardinality(Changed(base, v)) <= IF k \in {Commands, Timers} THEN 2 ELSE 1

\* The keys of the forms that a load or a save disables.
Disabling == {"httpConfig", "loyaltyConfig"}

IsRequest(r) ==
  /\ r.op \in {"get", "sub", "unsub", "put", "points", "remove"}
  /\ r.op \in {"get", "sub"} => r.key \in Stored
  /\ r.op = "put" => /\ r.key \in Modules /\ Fits(r.key, r.value)
                     /\ r.key \in Tables => IsEdit(r.key, r.base, r.value)
                     /\ r.key \in Disabling => r.then = "nothing"
  /\ r.op = "points" => r.user \in Users /\ r.value \in Int

IsMessage(m) ==
  /\ m.is \in {"value", "push", "stored", "points"}
  /\ m.is \in {"value", "push"} => m.key \in Stored /\ Fits(m.key, m.value)
  /\ m.is = "push" /\ m.key \in Tables => m.value # absent
  /\ m.is = "stored" => m.key \in Modules
  /\ m.is = "points" => m.user \in Users /\ m.value \in Int

\* The table a page edits, and the state of its dialog.
TableOf == [rewards |-> "loyaltyRewards", goals |-> "loyaltyGoals",
            commands |-> "twitchBotCommands", timers |-> "twitchBotTimers"]
IsDialog(k, d) ==
  /\ DOMAIN d = DOMAIN Closed /\ d.id \in Typed \union {""}
  /\ d.kind # "closed" => d.entry \in EntryOf(k)
  /\ DOMAIN d.info = {"on", "text"} /\ d.info.text \in Texts \union {""}
IsPaging(t) == DOMAIN t = DOMAIN Table /\ t.per \in PageSizes
IsUsersView(d) ==
  /\ DOMAIN d = DOMAIN UsersLocal
  /\ d.user \in Users \union {null} /\ d.points \in Int \union {NaN}
  /\ d.kind = "modify" => d.user \in Users
  /\ IsPaging(d.table)
IsQueueView(d) == DOMAIN d = DOMAIN QueueLocal /\ IsPaging(d.table)
Shows(p, d) ==
  /\ p \in DOMAIN TableOf => IsDialog(TableOf[p], d)
  /\ p = "users" => IsUsersView(d)
  /\ p = "queue" => IsQueueView(d)

\* What an async function was given when it began.
IsTask(t) ==
  /\ "does" \in DOMAIN t
  /\ t.does \in {"userInfo", "testKeys", "checkKeys"} => t.page \in {"twitch", "setup"}
  /\ t.does = "checkKeys" => StepOf(t.ui) = TwitchIntegration
  /\ t.does = "testTemplate" =>
       /\ IsDialog(Commands, t.dialog) /\ t.dialog.kind # "closed" /\ t.dialog.id # ""
       /\ t.base = null \/ Fits(Commands, t.base)

\* The key whose configuration a page is about.
Main == [setup |-> Ui, twitch |-> Twitch, server |-> Http, loyalty |-> Loyalty]

RequestsOK == up \in Seq(ToSet(up)) /\ \A r \in ToSet(up) : IsRequest(r)
MessagesOK == down \in Seq(ToSet(down)) /\ \A m \in ToSet(down) : IsMessage(m)
DataOK ==
  /\ \A k \in Stored : Fits(k, db[k])
  /\ \A k \in Keys : copies[k] = null \/ Fits(k, copies[k])
  /\ \A k \in Tables : copies[k] # absent
LinkOK ==
  conn = "NotConnected" => up = <<>> /\ down = <<>> /\ held = {} /\ hooks = {}
PageOK ==
  conn = "Connected" =>
    /\ \A p \in DOMAIN Main : page = p => Main[p] \in hooks
    /\ "authKeys" \in hooks => page \in {"twitch", "setup"}
    /\ Shows(page, local)
TasksOK == \A t \in tasks : IsTask(t)

Inv == /\ TypeOK /\ RequestsOK /\ MessagesOK /\ DataOK /\ LinkOK /\ PageOK
       /\ TasksOK

-----------------------------------------------------------------------------
(* What the sequences hold.                                                *)

IsSeq(s) == s \in Seq(ToSet(s))

LEMMA SeqHolds ==
  ASSUME NEW S, NEW s \in Seq(S)
  PROVE  /\ IsSeq(s) /\ ToSet(s) \subseteq S
         /\ DOMAIN s = 1 .. Len(s) /\ Len(s) \in Nat
<1>1. /\ Len(s) \in Nat /\ DOMAIN s = 1 .. Len(s) /\ s \in [1 .. Len(s) -> S]
  BY LenProperties
<1>2. s \in [1 .. Len(s) -> ToSet(s)]
  BY <1>1 DEF ToSet
<1>3. s \in Seq(ToSet(s))
  BY <1>1, <1>2, SeqDef
<1> QED BY <1>1, <1>3 DEF IsSeq, ToSet

LEMMA NoneHeld == IsSeq(<<>>) /\ ToSet(<<>>) = {}
BY DEF ToSet, IsSeq

LEMMA OneHeld ==
  ASSUME NEW a
  PROVE  IsSeq(<<a>>) /\ ToSet(<<a>>) = {a}
BY DEF ToSet, IsSeq

LEMMA TwoHeld ==
  ASSUME NEW a, NEW b
  PROVE  IsSeq(<<a, b>>) /\ ToSet(<<a, b>>) = {a, b}
BY DEF ToSet, IsSeq

LEMMA BothHeld ==
  ASSUME NEW s, NEW t, IsSeq(s), IsSeq(t)
  PROVE  /\ IsSeq(s \o t) /\ ToSet(s \o t) = ToSet(s) \union ToSet(t)
         /\ Len(s) \in Nat /\ Len(t) \in Nat /\ DOMAIN (s \o t) = 1 .. Len(s) + Len(t)
         /\ DOMAIN s = 1 .. Len(s) /\ DOMAIN t = 1 .. Len(t)
         /\ \A i \in DOMAIN s : (s \o t)[i] = s[i]
         /\ \A i \in DOMAIN t : (s \o t)[i + Len(s)] = t[i]
         /\ \A i \in DOMAIN (s \o t) : i \in DOMAIN s \/ i - Len(s) \in DOMAIN t
<1> DEFINE S == ToSet(s) \union ToSet(t)
<1>1. s \in Seq(S) /\ t \in Seq(S)
  BY SeqMonotonic DEF IsSeq
<1>2. /\ s \o t \in Seq(S) /\ Len(s \o t) = Len(s) + Len(t)
      /\ \A i \in 1 .. Len(s) + Len(t) :
           (s \o t)[i] = IF i <= Len(s) THEN s[i] ELSE t[i - Len(s)]
  BY <1>1, ConcatProperties
<1>3. /\ Len(s) \in Nat /\ Len(t) \in Nat /\ DOMAIN s = 1 .. Len(s)
      /\ DOMAIN t = 1 .. Len(t) /\ DOMAIN (s \o t) = 1 .. Len(s) + Len(t)
  BY <1>1, <1>2, LenProperties
<1>4. \A i \in DOMAIN s : (s \o t)[i] = s[i]
  BY <1>2, <1>3
<1>5. \A i \in DOMAIN t : (s \o t)[i + Len(s)] = t[i]
  BY <1>2, <1>3
<1>6. \A i \in DOMAIN (s \o t) : i \in DOMAIN s \/ i - Len(s) \in DOMAIN t
  BY <1>3
<1>7. ToSet(s) \subseteq ToSet(s \o t)
  BY <1>3, <1>4 DEF ToSet
<1>8. ToSet(t) \subseteq ToSet(s \o t)
  <2> SUFFICES ASSUME NEW i \in DOMAIN t PROVE t[i] \in ToSet(s \o t)
    BY DEF ToSet
  <2>1. i + Len(s) \in DOMAIN (s \o t)
    BY <1>3
  <2> QED BY <1>5, <2>1 DEF ToSet
<1> QED BY <1>2, <1>3, <1>4, <1>5, <1>6, <1>7, <1>8, SeqHolds

LEMMA HeadHeld ==
  ASSUME NEW s, IsSeq(s), s # <<>>
  PROVE  /\ IsSeq(Tail(s)) /\ Head(s) = s[1]
         /\ Len(s) \in Nat \ {0} /\ DOMAIN s = 1 .. Len(s)
         /\ DOMAIN Tail(s) = 1 .. Len(s) - 1
         /\ \A i \in DOMAIN Tail(s) : i + 1 \in DOMAIN s /\ Tail(s)[i] = s[i + 1]
         /\ Head(s) \in ToSet(s) /\ ToSet(Tail(s)) \subseteq ToSet(s)
         /\ ToSet(s) = ToSet(Tail(s)) \union {Head(s)}
<1>1. /\ Len(s) \in Nat \ {0} /\ DOMAIN s = 1 .. Len(s)
  BY EmptySeq, LenProperties DEF IsSeq
<1>2. /\ Tail(s) \in Seq(ToSet(s)) /\ Len(Tail(s)) = Len(s) - 1
      /\ \A i \in 1 .. Len(Tail(s)) : Tail(s)[i] = s[i + 1]
  BY HeadTailProperties DEF IsSeq
<1>3. IsSeq(Tail(s)) /\ ToSet(Tail(s)) \subseteq ToSet(s) /\ DOMAIN Tail(s) = 1 .. Len(s) - 1
  BY <1>2, SeqHolds
<1>4. Head(s) = s[1]
  BY DEF IsSeq
<1>5. \A i \in DOMAIN Tail(s) : i + 1 \in DOMAIN s /\ Tail(s)[i] = s[i + 1]
  BY <1>1, <1>2, <1>3
<1>6. Head(s) \in ToSet(s)
  BY <1>1, <1>4 DEF ToSet
<1>7. ToSet(s) \subseteq ToSet(Tail(s)) \union {Head(s)}
  <2> SUFFICES ASSUME NEW i \in DOMAIN s, i # 1 PROVE s[i] \in ToSet(Tail(s))
    BY <1>4 DEF ToSet
  <2>1. i - 1 \in DOMAIN Tail(s) /\ (i - 1) + 1 = i
    BY <1>1, <1>3
  <2> QED BY <1>5, <2>1 DEF ToSet
<1> QED BY <1>1, <1>3, <1>4, <1>5, <1>6, <1>7

LEMMA AppendHeld ==
  ASSUME NEW s, NEW a, IsSeq(s)
  PROVE  /\ IsSeq(Append(s, a)) /\ ToSet(Append(s, a)) = ToSet(s) \union {a}
         /\ Append(s, a) = s \o <<a>>
<1>1. Append(s, a) = s \o <<a>>
  <2>1. s \in Seq(ToSet(s) \union {a})
    BY SeqMonotonic DEF IsSeq
  <2> QED BY <2>1, AppendIsConcat
<1> QED BY <1>1, OneHeld, BothHeld

-----------------------------------------------------------------------------
(* Tables, their edits, and the step of the setup.                         *)

LEMMA TableIsThere ==
  ASSUME NEW k \in Tables, NEW t, IsTable(k, t)
  PROVE  t \notin {null, absent} /\ Fits(k, t)
<1>1. {null, absent} \intersect [DOMAIN t -> EntryOf(k)] = {}
  BY EntryAssumption DEF IsTable
<1>2. k \notin {"points", Ui, Queue}
  BY DEF Tables, Ui, Queue
<1> QED BY <1>1, <1>2 DEF IsTable, Fits

\* What the copy or the database has for a table.
LEMMA TableOrEmpty ==
  ASSUME NEW k \in Tables, NEW t, t = null \/ Fits(k, t)
  PROVE  /\ IsTable(k, OrEmpty(t)) /\ DOMAIN OrEmpty(t) = Names(t)
         /\ Names(t) \subseteq Typed
         /\ Names(t) # {} => OrEmpty(t) = t /\ IsTable(k, t)
<1>1. CASE t \in {null, absent}
  BY <1>1 DEF OrEmpty, Names, IsTable
<1>2. CASE t \notin {null, absent}
  <2>1. IsTable(k, t)
    BY <1>2 DEF Fits
  <2> QED BY <1>2, <2>1 DEF OrEmpty, Names, IsTable
<1> QED BY <1>1, <1>2

LEMMA AtMost ==
  ASSUME NEW S, NEW i, NEW j, S \subseteq {i, j}
  PROVE  Cardinality(S) <= 2 /\ (i = j => Cardinality(S) <= 1)
<1>1. /\ IsFiniteSet({i, j}) /\ IsFiniteSet(S)
      /\ Cardinality({i, j}) \in Nat /\ Cardinality(S) \in Nat
      /\ Cardinality(S) <= Cardinality({i, j})
  <2>1. IsFiniteSet({i}) /\ Cardinality({i}) = 1
    BY FS_Singleton
  <2>2. /\ IsFiniteSet({i} \union {j})
        /\ Cardinality({i} \union {j}) = IF j \in {i} THEN 1 ELSE 2
    BY <2>1, FS_AddElement
  <2>3. {i} \union {j} = {i, j}
    OBVIOUS
  <2> QED BY <2>2, <2>3, FS_Subset, FS_CardinalityType
<1>2. IsFiniteSet({i}) /\ Cardinality({i}) = 1
  BY FS_Singleton
<1>3. /\ Cardinality({i} \union {j}) = IF j \in {i} THEN 1 ELSE 2
      /\ {i} \union {j} = {i, j}
  BY <1>2, FS_AddElement
<1> QED BY <1>1, <1>3

\* An edit that changes one entry, or two.
LEMMA Edited ==
  ASSUME NEW k \in Tables, NEW base, NEW t, IsTable(k, t), NEW i, NEW j,
         Changed(base, t) \subseteq {i, j}, k \notin {Commands, Timers} => i = j
  PROVE  IsEdit(k, base, t)
BY AtMost DEF IsEdit

LEMMA WithIsEdit ==
  ASSUME NEW k \in Tables, NEW base, base = null \/ Fits(k, base),
         NEW id \in Typed, NEW e \in EntryOf(k)
  PROVE  IsTable(k, With(OrEmpty(base), id, e)) /\ IsEdit(k, base, With(OrEmpty(base), id, e))
<1> DEFINE t == With(OrEmpty(base), id, e)
<1>1. IsTable(k, OrEmpty(base)) /\ DOMAIN OrEmpty(base) = Names(base)
  BY TableOrEmpty
<1>2. IsTable(k, t) /\ DOMAIN t = Names(base) \union {id}
  BY <1>1 DEF With, IsTable
<1>3. Names(t) = Names(base) \union {id}
  BY <1>2, TableIsThere DEF Names
<1>4. \A i \in Names(base) \ {id} : t[i] = base[i]
  BY <1>1, TableOrEmpty DEF With
<1>5. Changed(base, t) \subseteq {id, id}
  BY <1>3, <1>4 DEF Changed
<1> QED BY <1>2, <1>5, Edited

LEMMA ToggledIsEdit ==
  ASSUME NEW k \in Tables, NEW base, base = null \/ Fits(k, base),
         NEW id \in Names(base)
  PROVE  IsEdit(k, base, Toggled(base, id))
<1> DEFINE t == Toggled(base, id)
<1>1. IsTable(k, base) /\ DOMAIN base = Names(base)
  BY TableOrEmpty
<1>2. t = [base EXCEPT ![id] = [base[id] EXCEPT !.on = ~base[id].on]]
  BY DEF Toggled
<1>3. [base[id] EXCEPT !.on = ~base[id].on] \in EntryOf(k)
  BY <1>1 DEF IsTable, EntryOf
<1>4. IsTable(k, t) /\ DOMAIN t = Names(base) /\ \A i \in Names(base) \ {id} : t[i] = base[i]
  BY <1>1, <1>2, <1>3 DEF IsTable
<1>5. Names(t) = Names(base)
  BY <1>4, TableIsThere DEF Names
<1>6. Changed(base, t) \subseteq {id, id}
  BY <1>4, <1>5 DEF Changed
<1> QED BY <1>4, <1>6, Edited

LEMMA WithoutIsEdit ==
  ASSUME NEW k \in Tables, NEW base, base = null \/ Fits(k, base),
         NEW id \in Names(base)
  PROVE  IsEdit(k, base, Without(base, id))
<1> DEFINE t == Without(base, id)
<1>1. IsTable(k, base) /\ DOMAIN base = Names(base)
  BY TableOrEmpty
<1>2. IsTable(k, t) /\ DOMAIN t = Names(base) \ {id}
      /\ \A i \in Names(base) \ {id} : t[i] = base[i]
  BY <1>1 DEF IsTable, Without
<1>3. Names(t) = Names(base) \ {id}
  BY <1>2, TableIsThere DEF Names
<1>4. Changed(base, t) \subseteq {id, id}
  BY <1>2, <1>3 DEF Changed
<1> QED BY <1>2, <1>4, Edited

LEMMA RenamedIsEdit ==
  ASSUME NEW k \in {Commands, Timers}, NEW base, base = null \/ Fits(k, base),
         NEW old, NEW id \in Typed, NEW e \in EntryOf(k)
  PROVE  IsEdit(k, base, Renamed(base, old, id, e))
<1> DEFINE t == Renamed(base, old, id, e)
<1>0. k \in Tables
  BY DEF Tables, Commands, Timers
<1>1. IsTable(k, OrEmpty(base)) /\ DOMAIN OrEmpty(base) = Names(base)
  BY <1>0, TableOrEmpty
<1>2. IsTable(k, t) /\ DOMAIN t = (Names(base) \ {old}) \union {id}
  BY <1>1 DEF Renamed, With, Without, IsTable
<1>3. Names(t) = (Names(base) \ {old}) \union {id}
  BY <1>0, <1>2, TableIsThere DEF Names
<1>4. \A i \in Names(base) \ {old, id} : t[i] = base[i]
  BY <1>0, <1>1, TableOrEmpty DEF Renamed, With, Without
<1>5. Changed(base, t) \subseteq {old, id}
  BY <1>3, <1>4 DEF Changed
<1> QED BY <1>0, <1>2, <1>5, Edited

\* What is stored for the setup has the step it had, or the new one.
LEMMA StepAfter ==
  ASSUME NEW c, NEW f, NEW v
  PROVE  /\ f = "step" => StepOf(Spread(c, f, v)) \in {Landing, v}
         /\ f # "step" => StepOf(Spread(c, f, v)) \in {Landing, StepOf(c)}
<1> DEFINE t == Spread(c, f, v)
<1>1. CASE t \in {null, absent}
  BY <1>1 DEF StepOf, Field, Names
<1>2. CASE t \notin {null, absent} /\ "step" \notin DOMAIN t
  BY <1>2 DEF StepOf, Field, Names
<1>3. CASE t \notin {null, absent} /\ "step" \in DOMAIN t
  <2>1. StepOf(t) = t["step"]
    BY <1>3 DEF StepOf, Field, Names
  <2>2. CASE f = "step"
    BY <2>1, <2>2 DEF Spread, With
  <2>3. CASE f # "step"
    <3>1. "step" \in DOMAIN OrEmpty(c) /\ t["step"] = OrEmpty(c)["step"]
      BY <1>3, <2>3 DEF Spread, With
    <3>2. c \notin {null, absent} /\ OrEmpty(c) = c
      BY <3>1 DEF OrEmpty
    <3> QED BY <2>1, <2>3, <3>1, <3>2 DEF StepOf, Field, Names
  <2> QED BY <2>2, <2>3
<1> QED BY <1>1, <1>2, <1>3

LEMMA NoStep == StepOf(null) = Landing /\ StepOf(absent) = Landing /\ Landing \in Steps
BY DEF StepOf, Field, Names, Steps

-----------------------------------------------------------------------------
(* The kinds of steps the dashboard takes.                                 *)

AsksFor(r, k) == r.op = "get" /\ r.key = k
Saves(r, k) == r.op = "put" /\ r.key = k /\ r.then = "nothing"

\* Requests that a mounted page makes.
Asks(reqs) ==
  /\ IsSeq(reqs) /\ Send(reqs)
  /\ \A r \in ToSet(reqs) : IsRequest(r) /\ r.op \notin {"sub", "unsub"}

\* What is shown as pending is being asked for, or saved from its own page.
StatusFits(R) ==
  /\ load' \in [Modules -> Statuses] /\ save' \in [Modules -> Statuses]
  /\ \A k \in Modules : load'[k] = "pending" =>
       load[k] = "pending" \/ \E r \in R : AsksFor(r, k)
  /\ \A k \in Disabling : load'[k] = load[k]
  /\ \A k \in Disabling : save'[k] = "pending" =>
       \/ save[k] = "pending"
       \/ (\E p \in DOMAIN Main : Here(p) /\ Main[p] = k) /\ \E r \in R : Saves(r, k)

\* A click, some input, or the answer of a call.
PageStep ==
  /\ UNCHANGED <<hub, down, conn, copy, page, hooks>>
  /\ \E reqs : Asks(reqs) /\ StatusFits(ToSet(reqs))
  /\ conn = "Connected" => Shows(page, local')
  /\ \A t \in tasks' : IsTask(t)

DraftStep == \E k \in Modules \ (Tables \union {Ui, Queue}) : \E v : Changes(k, v)

\* A balance is asked for before its changes are.
ReadFirst(s) ==
  \A i \in DOMAIN s : s[i].op = "sub" /\ s[i].key = "points" =>
    \E j \in 1 .. i - 1 : AsksFor(s[j], "points")

\* Components mount that use the keys in.
Mounts(reqs, in) ==
  /\ IsSeq(reqs) /\ ReadFirst(reqs)
  /\ \A r \in ToSet(reqs) : IsRequest(r) /\ r.op \in {"get", "sub", "unsub"}
  /\ up' = (IF conn = "Connected" THEN up ELSE <<>>) \o reqs
  /\ in \subseteq Stored
  /\ \A k \in in \intersect Keys : \E r \in ToSet(reqs) : AsksFor(r, k)
MountStep ==
  /\ UNCHANGED <<hub, down, copy>> /\ conn' = "Connected" /\ page' \in Pages
  /\ \E reqs, in, stays, out, read :
       /\ Mounts(reqs, in)
       /\ stays \subseteq hooks /\ hooks' = stays \union in
       /\ StatusAfter(out, read) /\ read \intersect Modules \subseteq in
       /\ \A p \in DOMAIN Main : Here(p) /\ Main[p] \in Disabling => Main[p] \in out
       /\ \A p \in DOMAIN Main : page' = p /\ Main[p] \in Disabling => Main[p] \in read
  /\ PageOK' /\ TasksOK'

LEMMA WireTypes ==
  ASSUME NEW requests, \A r \in ToSet(requests) : IsRequest(r),
         NEW messages, \A m \in ToSet(messages) : IsMessage(m)
  PROVE  /\ \A i \in DOMAIN requests : requests[i].op \in
              {"get", "sub", "unsub", "put", "points", "remove"}
         /\ \A i \in DOMAIN messages :
              messages[i].is \in {"value", "push", "stored", "points"}
BY DEF IsRequest, IsMessage, ToSet

LEMMA StillTyped ==
  ASSUME RequestsOK', MessagesOK',
         DOMAIN db' = Stored, DOMAIN copies' = Keys,
         db'["points"] \in [Users -> Int],
         copies'["points"] \in [Users -> Int] \union {null},
         held' \subseteq Stored, hooks' \subseteq Stored,
         drafts' \subseteq Modules, unheard' \subseteq Stored,
         conn' \in {"NotConnected", "Connected"}, page' \in Pages,
         load' \in [Modules -> Statuses], save' \in [Modules -> Statuses]
  PROVE  TypeOK'
BY WireTypes DEF TypeOK, RequestsOK, MessagesOK

LEMMA SentOK ==
  ASSUME Inv, NEW reqs, IsSeq(reqs), \A r \in ToSet(reqs) : IsRequest(r),
         up' = up \o reqs
  PROVE  RequestsOK' /\ ToSet(up') = ToSet(up) \union ToSet(reqs)
BY BothHeld DEF Inv, RequestsOK, IsSeq

LEMMA AskedOK ==
  ASSUME Inv, NEW reqs, Asks(reqs)
  PROVE  /\ RequestsOK' /\ ToSet(up) \subseteq ToSet(up')
         /\ conn = "Connected" => ToSet(up') = ToSet(up) \union ToSet(reqs)
         /\ conn = "NotConnected" => up' = up
<1>1. CASE conn = "NotConnected"
  BY <1>1 DEF Asks, Send, Inv, RequestsOK
<1>2. CASE conn # "NotConnected"
  BY <1>2, SentOK DEF Asks, Send
<1> QED BY <1>1, <1>2

LEMMA PageStepOK ==
  ASSUME Inv, PageStep
  PROVE  Inv'
<1>1. PICK reqs : Asks(reqs) /\ StatusFits(ToSet(reqs))
  BY DEF PageStep
<1>2. RequestsOK' /\ MessagesOK'
  BY <1>1, AskedOK DEF PageStep, Inv, MessagesOK
<1>3. DataOK' /\ TasksOK'
  BY DEF PageStep, Inv, DataOK, TasksOK, hub, copy
<1>4. LinkOK'
  BY <1>1, AskedOK DEF PageStep, Inv, LinkOK, hub
<1>5. PageOK'
  BY DEF PageStep, Inv, PageOK
<1>6. TypeOK'
  BY <1>1, <1>2, StillTyped DEF PageStep, StatusFits, Inv, TypeOK, hub, copy
<1> QED BY <1>2, <1>3, <1>4, <1>5, <1>6 DEF Inv

LEMMA DraftStepOK ==
  ASSUME Inv, DraftStep
  PROVE  Inv'
<1>0. PICK k \in Modules \ (Tables \union {Ui, Queue}) : \E v : Changes(k, v)
  BY DEF DraftStep
<1>1. PICK v : Changes(k, v)
  BY <1>0
<1>2. Fits(k, v) /\ k # "points" /\ k \notin Tables
  BY <1>1 DEF Fits, Modules
<1>3. RequestsOK' /\ MessagesOK' /\ TasksOK' /\ LinkOK' /\ PageOK'
  BY <1>1 DEF Changes, Inv, RequestsOK, MessagesOK, TasksOK, LinkOK, PageOK, hub,
              wire, view
<1>4. DataOK'
  BY <1>1, <1>2 DEF Changes, Draft, Inv, DataOK, TypeOK, hub
<1>5. TypeOK'
  BY <1>1, <1>2, <1>3, StillTyped DEF Changes, Draft, Inv, TypeOK, hub, status, view
<1> QED BY <1>3, <1>4, <1>5 DEF Inv

LEMMA MountStepOK ==
  ASSUME Inv, MountStep
  PROVE  Inv'
<1>1. PICK reqs, in, stays, out, read :
        /\ Mounts(reqs, in)
        /\ stays \subseteq hooks /\ hooks' = stays \union in
        /\ StatusAfter(out, read) /\ read \intersect Modules \subseteq in
  BY DEF MountStep
<1>2. up' = up \o reqs
  BY <1>1 DEF Mounts, Inv, LinkOK, TypeOK
<1>3. RequestsOK' /\ MessagesOK'
  BY <1>1, <1>2, SentOK DEF Mounts, MountStep, Inv, MessagesOK
<1>4. DataOK' /\ LinkOK'
  BY DEF MountStep, Inv, DataOK, LinkOK, hub, copy
<1>5. load' \in [Modules -> Statuses] /\ save' \in [Modules -> Statuses]
  BY <1>1 DEF StatusAfter, Inv, TypeOK, Statuses
<1>6. hooks' \subseteq Stored
  BY <1>1 DEF Mounts, Inv, TypeOK
<1>7. TypeOK'
  BY <1>3, <1>5, <1>6, StillTyped DEF MountStep, Inv, TypeOK, hub, copy
<1> QED BY <1>3, <1>4, <1>7 DEF MountStep, Inv

LEMMA SameView ==
  ASSUME Inv, UNCHANGED <<conn, page, hooks, local, tasks>>
  PROVE  PageOK' /\ TasksOK' /\ conn' \in {"NotConnected", "Connected"}
         /\ page' \in Pages /\ hooks' \subseteq Stored
BY DEF Inv, TypeOK, PageOK, TasksOK

LEMMA DisconnectOK ==
  ASSUME Inv, Disconnect
  PROVE  Inv'
<1>1. RequestsOK' /\ MessagesOK'
  BY NoneHeld DEF Disconnect, RequestsOK, MessagesOK, IsSeq
<1>2. DataOK' /\ LinkOK' /\ PageOK' /\ TasksOK'
  BY DEF Disconnect, Inv, DataOK, LinkOK, PageOK, TasksOK, copy
<1>3. load' \in [Modules -> Statuses] /\ save' \in [Modules -> Statuses]
  BY DEF Disconnect, StatusAfter, Inv, TypeOK, Statuses
<1>4. TypeOK'
  BY <1>1, <1>3, StillTyped DEF Disconnect, Inv, TypeOK, copy
<1> QED BY <1>1, <1>2, <1>4 DEF Inv

-----------------------------------------------------------------------------
(* The hub and the other clients.                                          *)

LEMMA HandlingOK ==
  ASSUME Inv, NEW op, Handling(op)
  PROVE  /\ RequestsOK' /\ IsRequest(Head(up)) /\ conn = "Connected"
         /\ Head(up) \in ToSet(up) /\ ToSet(up) = ToSet(up') \union {Head(up)}
<1>1. conn = "Connected"
  BY DEF Handling, Inv, LinkOK, TypeOK
<1> QED BY <1>1, HeadHeld DEF Handling, Inv, RequestsOK, IsSeq

LEMMA HeardOK ==
  ASSUME Inv, NEW messages, IsSeq(messages), \A m \in ToSet(messages) : IsMessage(m),
         down' = down \o messages
  PROVE  MessagesOK' /\ ToSet(down') = ToSet(down) \union ToSet(messages)
BY BothHeld DEF Inv, MessagesOK, IsSeq

LEMMA BothHeardOK ==
  ASSUME Inv, NEW first, IsSeq(first), \A m \in ToSet(first) : IsMessage(m),
         NEW second, IsSeq(second), \A m \in ToSet(second) : IsMessage(m),
         down' = (down \o first) \o second
  PROVE  MessagesOK'
<1> DEFINE rest == down \o first
<1>1. IsSeq(rest) /\ ToSet(rest) = ToSet(down) \union ToSet(first)
  BY BothHeld DEF Inv, MessagesOK, IsSeq
<1> HIDE DEF rest
<1>2. IsSeq(rest \o second) /\ ToSet(rest \o second) = ToSet(rest) \union ToSet(second)
  BY <1>1, BothHeld
<1>3. down' = rest \o second
  BY DEF rest
<1>4. \A m \in ToSet(down) : IsMessage(m)
  BY DEF Inv, MessagesOK
<1> QED BY <1>1, <1>2, <1>3, <1>4 DEF MessagesOK, IsSeq

LEMMA StillHeard ==
  ASSUME Inv, UNCHANGED down
  PROVE  MessagesOK'
BY DEF Inv, MessagesOK

LEMMA StillAsked ==
  ASSUME Inv, UNCHANGED up
  PROVE  RequestsOK'
BY DEF Inv, RequestsOK

\* The hub and the others change what is stored, and who hears of it.
LEMMA HubStepOK ==
  ASSUME Inv, RequestsOK', MessagesOK',
         UNCHANGED <<conn, copy, status, view, tasks>>,
         DOMAIN db' = Stored, \A k \in Stored : Fits(k, db'[k]),
         held' \subseteq Stored, unheard' \subseteq Stored,
         conn = "Connected" \/ UNCHANGED <<up, down, held>>
  PROVE  Inv'
<1>1. DataOK' /\ LinkOK'
  BY DEF Inv, DataOK, LinkOK, TypeOK, copy, view
<1>2. PageOK' /\ TasksOK' /\ conn' \in {"NotConnected", "Connected"}
      /\ page' \in Pages /\ hooks' \subseteq Stored
  BY SameView DEF view
<1>3. db'["points"] \in [Users -> Int]
  BY DEF Fits, Stored, Keys
<1>4. TypeOK'
  BY <1>2, <1>3, StillTyped DEF Inv, TypeOK, copy, status
<1> QED BY <1>1, <1>2, <1>4 DEF Inv

LEMMA HubGetOK ==
  ASSUME Inv, HubGet
  PROVE  Inv'
<1> DEFINE k == Head(up).key
           m == [is |-> "value", key |-> k, value |-> db[k]]
<1>1. RequestsOK' /\ IsRequest(Head(up)) /\ conn = "Connected" /\ k \in Stored
  BY HandlingOK DEF HubGet, Handling, IsRequest
<1>2. IsMessage(m)
  BY <1>1 DEF IsMessage, Inv, DataOK
<1>3. down' = down \o <<m>>
  BY AppendHeld DEF HubGet, Inv, MessagesOK, IsSeq
<1>4. MessagesOK'
  <2> HIDE DEF m
  <2>1. IsSeq(<<m>>) /\ \A n \in ToSet(<<m>>) : IsMessage(n)
    BY <1>2, OneHeld
  <2> QED BY <1>3, <2>1, HeardOK
<1> QED BY <1>1, <1>4, HubStepOK DEF HubGet, Inv, TypeOK, DataOK

LEMMA HubSubscribeOK ==
  ASSUME Inv, HubSubscribe
  PROVE  Inv'
<1>1. /\ RequestsOK' /\ conn = "Connected"
      /\ held' \subseteq held \union ({Head(up).key} \intersect Stored)
  BY HandlingOK DEF HubSubscribe, Handling, IsRequest
<1>2. MessagesOK'
  BY StillHeard DEF HubSubscribe
<1> QED BY <1>1, <1>2, HubStepOK DEF HubSubscribe, Inv, TypeOK, DataOK

LEMMA PushHeld ==
  ASSUME NEW k \in Stored, NEW v, Fits(k, v), k \in Tables => v # absent
  PROVE  /\ IsSeq(Push(k, v)) /\ \A m \in ToSet(Push(k, v)) : IsMessage(m)
         /\ k \notin held => Push(k, v) = <<>>
         /\ k \in held => Push(k, v) = <<[is |-> "push", key |-> k, value |-> v]>>
<1>1. IsMessage([is |-> "push", key |-> k, value |-> v])
  BY DEF IsMessage
<1> QED BY <1>1, NoneHeld, OneHeld DEF Push

LEMMA PointsPushHeld ==
  ASSUME NEW u \in Users, NEW n \in Int
  PROVE  /\ IsSeq(PointsPush(u, n)) /\ \A m \in ToSet(PointsPush(u, n)) : IsMessage(m)
         /\ "points" \notin held => PointsPush(u, n) = <<>>
         /\ "points" \in held =>
              PointsPush(u, n) = <<[is |-> "points", user |-> u, value |-> n]>>
<1>1. IsMessage([is |-> "points", user |-> u, value |-> n])
  BY DEF IsMessage
<1> QED BY <1>1, NoneHeld, OneHeld DEF PointsPush

LEMMA WriteFits ==
  ASSUME Inv, NEW k \in Stored, NEW v, Fits(k, v), Write(k, v)
  PROVE  /\ DOMAIN db' = Stored /\ \A key \in Stored : Fits(key, db'[key])
         /\ unheard' \subseteq Stored
BY DEF Write, Inv, TypeOK, DataOK

LEMMA HubPutOK ==
  ASSUME Inv, HubPut
  PROVE  Inv'
<1> DEFINE k == Head(up).key
           v == Head(up).value
           m == [is |-> "stored", key |-> k, then |-> Head(up).then]
<1>1. RequestsOK' /\ conn = "Connected" /\ k \in Modules /\ k \in Stored /\ Fits(k, v)
  BY HandlingOK DEF HubPut, Handling, IsRequest, Stored, Keys
<1>0. k \in Tables => v # absent
  BY HandlingOK, TableIsThere DEF HubPut, Handling, IsRequest, IsEdit
<1>2. IsMessage(m)
  BY <1>1 DEF IsMessage
<1>3. /\ IsSeq(Push(k, v)) /\ \A n \in ToSet(Push(k, v)) : IsMessage(n)
      /\ IsSeq(<<m>>) /\ \A n \in ToSet(<<m>>) : IsMessage(n)
  BY <1>0, <1>1, <1>2, PushHeld, OneHeld
<1>4. down' \in {down \o Push(k, v) \o <<m>>, down \o <<m>> \o Push(k, v)}
  BY DEF HubPut
<1>5. MessagesOK'
  <2> HIDE DEF k, v, m
  <2>1. CASE down' = (down \o Push(k, v)) \o <<m>>
    BY <1>3, <2>1, BothHeardOK
  <2>2. CASE down' = (down \o <<m>>) \o Push(k, v)
    BY <1>3, <2>2, BothHeardOK
  <2> QED BY <1>4, <2>1, <2>2
<1>6. Write(k, v)
  BY DEF HubPut
<1>7. /\ DOMAIN db' = Stored /\ \A key \in Stored : Fits(key, db'[key])
      /\ unheard' \subseteq Stored
  BY <1>1, <1>6, WriteFits
<1> QED BY <1>1, <1>5, <1>7, HubStepOK DEF HubPut, Inv, TypeOK

LEMMA HubPutPointsOK ==
  ASSUME Inv, HubPutPoints
  PROVE  Inv'
<1> DEFINE u == Head(up).user
           n == Head(up).value
           points == [db["points"] EXCEPT ![u] = n]
<1>1. RequestsOK' /\ conn = "Connected" /\ u \in Users /\ n \in Int
  BY HandlingOK DEF HubPutPoints, Handling, IsRequest
<1>2. "points" \in Stored /\ Fits("points", points)
  BY <1>1 DEF Inv, TypeOK, Fits, Stored, Keys, Ui, Queue, Tables
<1>3. Write("points", points) /\ down' = down \o PointsPush(u, n)
  BY DEF HubPutPoints, WritePoints
<1>4. MessagesOK'
  BY <1>1, <1>3, PointsPushHeld, HeardOK
<1>5. /\ DOMAIN db' = Stored /\ \A key \in Stored : Fits(key, db'[key])
      /\ unheard' \subseteq Stored
  BY <1>2, <1>3, WriteFits
<1> QED BY <1>1, <1>4, <1>5, HubStepOK DEF HubPutPoints, Inv, TypeOK

LEMMA HubRemoveOK ==
  ASSUME Inv, HubRemove
  PROVE  Inv'
<1>1. RequestsOK' /\ conn = "Connected"
  BY HandlingOK DEF HubRemove
<1>2. MessagesOK'
  BY StillHeard DEF HubRemove
<1> QED BY <1>1, <1>2, HubStepOK DEF HubRemove, Inv, TypeOK, DataOK

\* Another client, or the application, writes a table, the credentials or
\* what a form shows.
ElsewhereStep ==
  \E k \in Tables \union Disabling \union {"authKeys"} : \E v :
    /\ Fits(k, v) /\ (k \in Tables => v # absent) /\ (k \in Disabling => v = Theirs)
    /\ WrittenElsewhere(k, v)

LEMMA ElsewhereStepOK ==
  ASSUME Inv, ElsewhereStep
  PROVE  Inv'
<1>0. PICK k \in Tables \union Disabling \union {"authKeys"} : \E v :
        Fits(k, v) /\ (k \in Tables => v # absent) /\ WrittenElsewhere(k, v)
  BY DEF ElsewhereStep
<1>1. PICK v : Fits(k, v) /\ (k \in Tables => v # absent) /\ WrittenElsewhere(k, v)
  BY <1>0
<1>2. k \in Stored
  BY DEF Tables, Disabling, Stored, Keys, Modules
<1>3. Write(k, v) /\ down' = down \o Push(k, v) /\ UNCHANGED up /\ conn = "Connected"
  BY <1>1 DEF WrittenElsewhere, Inv, LinkOK, TypeOK
<1>4. RequestsOK' /\ MessagesOK'
  BY <1>1, <1>2, <1>3, PushHeld, HeardOK, StillAsked
<1>5. /\ DOMAIN db' = Stored /\ \A key \in Stored : Fits(key, db'[key])
      /\ unheard' \subseteq Stored
  BY <1>1, <1>2, <1>3, WriteFits
<1> QED BY <1>1, <1>3, <1>4, <1>5, HubStepOK DEF WrittenElsewhere, Inv, TypeOK

LEMMA QueueIsStored ==
  Queue \in Stored \ Tables /\ \A v : Listed(v) \subseteq Redeems => Fits(Queue, v)
BY DEF Queue, Stored, Keys, Modules, Fits, Ui, Tables

LEMMA QueueKept ==
  ASSUME Inv
  PROVE  /\ Listed(db[Queue]) \subseteq Redeems
         /\ \A r : Fits(Queue, Listed(db[Queue]) \ {r})
         /\ \A r \in Redeems : Fits(Queue, Listed(db[Queue]) \union {r})
<1>1. Listed(db[Queue]) \subseteq Redeems
  BY QueueIsStored DEF Inv, DataOK, Fits
<1> QED BY <1>1, QueueIsStored DEF Listed

LEMMA ManagerRemovesOK ==
  ASSUME Inv, ManagerRemoves
  PROVE  Inv'
<1>1. RequestsOK' /\ UNCHANGED <<held, conn, copy, status, view, tasks>>
  BY StillAsked DEF ManagerRemoves
<1>2. CASE UNCHANGED <<db, unheard, down>>
  <2>1. MessagesOK'
    BY <1>2, StillHeard
  <2> QED BY <1>1, <1>2, <2>1, HubStepOK DEF ManagerRemoves, Inv, TypeOK, DataOK
<1>3. ASSUME NEW queue, Fits(Queue, queue), Write(Queue, queue), down' = down \o Push(Queue, queue)
      PROVE  Inv'
  <2>1. MessagesOK'
    BY <1>3, QueueIsStored, PushHeld, HeardOK
  <2>2. /\ DOMAIN db' = Stored /\ \A key \in Stored : Fits(key, db'[key])
        /\ unheard' \subseteq Stored
    BY <1>3, QueueIsStored, WriteFits
  <2>3. conn = "Connected" \/ UNCHANGED down
    <3> SUFFICES ASSUME conn = "NotConnected" PROVE UNCHANGED down
      BY DEF Inv, TypeOK
    <3>1. Push(Queue, queue) = <<>> /\ down = <<>>
      BY DEF Push, Inv, LinkOK
    <3> QED BY <1>3, <3>1
  <2> QED BY <1>1, <2>1, <2>2, <2>3, HubStepOK DEF ManagerRemoves, Inv, TypeOK
<1>4. \/ UNCHANGED <<db, unheard, down>>
      \/ \E queue : Fits(Queue, queue) /\ Write(Queue, queue)
                      /\ down' = down \o Push(Queue, queue)
  BY QueueKept DEF ManagerRemoves
<1> QED BY <1>2, <1>3, <1>4

LEMMA ViewerRedeemsOK ==
  ASSUME Inv, NEW r \in Redeems, ViewerRedeems(r)
  PROVE  Inv'
<1> DEFINE u == UserOf[r]
           n == db["points"][u] - Price[r]
           queue == Listed(db[Queue]) \union {r}
<1>0. Fits(Queue, queue)
  BY QueueKept
<1>1. u \in Users /\ n \in Int
  BY PointsAssumption DEF Inv, TypeOK
<1>2. RequestsOK' /\ conn = "Connected"
  BY StillAsked DEF ViewerRedeems, Inv, LinkOK, TypeOK
<1>3. down' = (down \o Push(Queue, queue)) \o PointsPush(u, n)
  BY DEF ViewerRedeems
<1>4. /\ IsSeq(Push(Queue, queue)) /\ \A m \in ToSet(Push(Queue, queue)) : IsMessage(m)
      /\ IsSeq(PointsPush(u, n)) /\ \A m \in ToSet(PointsPush(u, n)) : IsMessage(m)
  BY <1>0, <1>1, QueueIsStored, PushHeld, PointsPushHeld
<1>5. MessagesOK'
  BY <1>3, <1>4, BothHeardOK
<1>6. db' = [db EXCEPT ![Queue] = queue, !["points"] = [db["points"] EXCEPT ![u] = n]]
  BY DEF ViewerRedeems, Queue
<1>7. DOMAIN db' = Stored /\ \A k \in Stored : Fits(k, db'[k])
  <2>1. DOMAIN db' = Stored
    BY <1>6 DEF Inv, TypeOK
  <2>2. ASSUME NEW k \in Stored PROVE Fits(k, db'[k])
    <3>1. CASE k = "points"
      <4>1. db'[k] = [db["points"] EXCEPT ![u] = n]
        BY <1>6, <3>1 DEF Inv, TypeOK, Stored, Keys
      <4>2. db'[k] \in [Users -> Int]
        BY <1>1, <4>1 DEF Inv, TypeOK
      <4>3. k \notin {Ui, Queue} \union Tables
        BY <3>1 DEF Ui, Queue, Tables
      <4> QED BY <4>2, <4>3 DEF Fits
    <3>2. CASE k = Queue
      <4>1. Queue \in DOMAIN db /\ Queue # "points"
        BY QueueIsStored DEF Inv, TypeOK, Queue
      <4>2. db'[Queue] = queue
        BY <1>6, <4>1
      <4> QED BY <1>0, <3>2, <4>2
    <3>3. CASE k \notin {"points", Queue}
      BY <1>6, <3>3 DEF Inv, TypeOK, DataOK
    <3> QED BY <3>1, <3>2, <3>3
  <2> QED BY <2>1, <2>2
<1>8. unheard' \subseteq Stored
  BY QueueIsStored DEF ViewerRedeems, Inv, TypeOK, Stored, Keys
<1> QED BY <1>2, <1>5, <1>7, <1>8, HubStepOK DEF ViewerRedeems, Inv, TypeOK

-----------------------------------------------------------------------------
(* The dashboard hears.                                                    *)

LEMMA ReceiveOK ==
  ASSUME Inv, NEW is, Receive(is)
  PROVE  /\ MessagesOK' /\ IsMessage(Head(down)) /\ conn = "Connected"
         /\ Head(down) \in ToSet(down) /\ ToSet(down) = ToSet(down') \union {Head(down)}
<1>1. conn = "Connected"
  BY DEF Receive, Inv, LinkOK, TypeOK
<1> QED BY <1>1, HeadHeld DEF Receive, Inv, MessagesOK, IsSeq

LEMMA GetAsks ==
  ASSUME NEW k \in Stored
  PROVE  IsRequest(Get(k)) /\ Get(k).op = "get" /\ AsksFor(Get(k), k)
BY DEF Get, IsRequest, AsksFor

LEMMA PutSaves ==
  ASSUME NEW k \in Modules, NEW v, NEW base, NEW then, Fits(k, v),
         k \in Tables => IsEdit(k, base, v), k \in Disabling => then = "nothing"
  PROVE  LET r == PutThen(k, v, base, then)
         IN IsRequest(r) /\ r.op = "put" /\ (then = "nothing" => Saves(r, k))
BY DEF PutThen, IsRequest, Saves

\* The keys whose values are of no particular form.
Plainly == Modules \ (Tables \union {Ui, Queue})
LEMMA PlainFits == \A k \in Plainly : k \notin Tables /\ k # "points" /\ \A v : Fits(k, v)
BY DEF Plainly, Fits, Modules
LEMMA PlainKeys == {Twitch, Bot, Http, Loyalty, Alerts} \subseteq Plainly
BY DEF Plainly, Twitch, Bot, Http, Loyalty, Alerts, Modules, Tables, Ui, Queue
LEMMA UiIsStored == Ui \in Modules \ Tables
BY DEF Ui, Modules, Tables

\* The dashboard takes a message into its copy, its view or its statuses.
LEMMA HeardStepOK ==
  ASSUME Inv, RequestsOK', MessagesOK', conn = "Connected",
         UNCHANGED <<hub, conn, page, hooks>>,
         DOMAIN copies' = Keys, \A k \in Keys : copies'[k] = null \/ Fits(k, copies'[k]),
         \A k \in Tables : copies'[k] # absent,
         drafts' \subseteq Modules,
         load' \in [Modules -> Statuses], save' \in [Modules -> Statuses],
         Shows(page, local'), TasksOK'
  PROVE  Inv'
<1>1. DataOK' /\ LinkOK' /\ PageOK'
  BY DEF Inv, DataOK, LinkOK, PageOK, TypeOK, hub
<1>2. copies'["points"] \in [Users -> Int] \union {null}
  BY DEF Fits, Keys
<1>3. TypeOK'
  BY <1>2, StillTyped DEF Inv, TypeOK, hub
<1> QED BY <1>1, <1>3 DEF Inv

LEMMA TablesKept == Tables \subseteq Keys \ {"points"}
BY DEF Tables, Keys, Modules

LEMMA LoadedOK ==
  ASSUME Inv, Loaded
  PROVE  Inv'
<1> DEFINE k == Head(down).key
           v == Head(down).value
<1>1. MessagesOK' /\ conn = "Connected" /\ k \in Modules /\ k \in Keys /\ Fits(k, v)
  BY ReceiveOK DEF Loaded, Receive, IsMessage, Keys
<1>2. /\ RequestsOK' /\ UNCHANGED <<hub, conn, page, hooks, save, local>>
      /\ TasksOK' /\ Shows(page, local')
  BY <1>1, StillAsked DEF Loaded, view, Inv, TasksOK, PageOK
<1>3. /\ DOMAIN copies' = Keys /\ \A key \in Keys : copies'[key] = null \/ Fits(key, copies'[key])
      /\ drafts' \subseteq Modules /\ load' \in [Modules -> Statuses]
  BY <1>1 DEF Loaded, copy, Inv, TypeOK, DataOK, Statuses
<1>4. \A key \in Tables : copies'[key] # absent
  BY <1>1, TablesKept DEF Loaded, copy, Inv, TypeOK, DataOK
<1> QED BY <1>1, <1>2, <1>3, <1>4, HeardStepOK DEF Inv, TypeOK

LEMMA PushedOK ==
  ASSUME Inv, Pushed
  PROVE  Inv'
<1> DEFINE k == Head(down).key
           v == Head(down).value
<1>1. MessagesOK' /\ conn = "Connected" /\ k \in Modules /\ k \in Keys /\ Fits(k, v)
  BY ReceiveOK DEF Pushed, Receive, IsMessage, Keys
<1>2. /\ RequestsOK' /\ UNCHANGED <<hub, conn, page, hooks, load, save, local>>
      /\ TasksOK' /\ Shows(page, local')
  BY <1>1, StillAsked DEF Pushed, view, status, Inv, TasksOK, PageOK
<1>3. /\ DOMAIN copies' = Keys /\ \A key \in Keys : copies'[key] = null \/ Fits(key, copies'[key])
      /\ drafts' \subseteq Modules
  BY <1>1 DEF Pushed, copy, Inv, TypeOK, DataOK
<1>4. \A key \in Tables : copies'[key] # absent
  <2>1. k \in Tables => v # absent
    BY ReceiveOK DEF Pushed, Receive, IsMessage
  <2> QED BY <1>1, <2>1, TablesKept DEF Pushed, copy, Inv, TypeOK, DataOK
<1> QED BY <1>1, <1>2, <1>3, <1>4, HeardStepOK DEF Inv, TypeOK

LEMMA SameCopies ==
  ASSUME Inv, UNCHANGED copies
  PROVE  /\ DOMAIN copies' = Keys
         /\ \A k \in Keys : copies'[k] = null \/ Fits(k, copies'[k])
         /\ \A k \in Tables : copies'[k] # absent
BY DEF Inv, TypeOK, DataOK

\* The answer of a setter: the getter is asked, and maybe another setter.
LEMMA AnswerOK ==
  ASSUME Inv, Receive("stored"), NEW reqs, Asks(reqs),
         UNCHANGED <<hub, conn, copy, view>>,
         load' \in [Modules -> Statuses], save' \in [Modules -> Statuses], TasksOK'
  PROVE  Inv'
<1>1. MessagesOK' /\ RequestsOK' /\ conn = "Connected"
  BY ReceiveOK, AskedOK
<1>2. Shows(page, local')
  BY <1>1 DEF Inv, PageOK, view
<1> QED BY <1>1, <1>2, SameCopies, HeardStepOK DEF Inv, TypeOK, copy, view

LEMMA SetterAsks ==
  ASSUME Inv, SetterAnswered
  PROVE  Head(down).key \in Modules /\ Asks(<<Get(Head(down).key)>>)
<1>1. Head(down).key \in Modules /\ Head(down).key \in Stored
  BY ReceiveOK DEF SetterAnswered, Receive, IsMessage, Stored, Keys
<1> QED BY <1>1, GetAsks, OneHeld DEF SetterAnswered, Asks

LEMMA SetterAnsweredOK ==
  ASSUME Inv, SetterAnswered
  PROVE  Inv'
<1>1. load' \in [Modules -> Statuses] /\ save' \in [Modules -> Statuses] /\ TasksOK'
  BY SetterAsks DEF SetterAnswered, Inv, TypeOK, TasksOK, Statuses
<1> QED BY <1>1, SetterAsks, AnswerOK DEF SetterAnswered

LEMMA PointsLoadedOK ==
  ASSUME Inv, PointsLoaded
  PROVE  Inv'
<1> DEFINE v == Head(down).value
<1>1. MessagesOK' /\ conn = "Connected" /\ Fits("points", v)
  BY ReceiveOK DEF PointsLoaded, Receive, IsMessage
<1>2. /\ RequestsOK' /\ UNCHANGED <<hub, conn, page, hooks, load, save, local, drafts>>
      /\ TasksOK' /\ Shows(page, local')
  BY <1>1, StillAsked DEF PointsLoaded, view, status, Inv, TasksOK, PageOK
<1>3. DOMAIN copies' = Keys /\ \A key \in Keys : copies'[key] = null \/ Fits(key, copies'[key])
  BY <1>1 DEF PointsLoaded, Inv, TypeOK, DataOK
<1>4. \A key \in Tables : copies'[key] # absent
  BY TablesKept DEF PointsLoaded, Inv, TypeOK, DataOK
<1> QED BY <1>1, <1>2, <1>3, <1>4, HeardStepOK DEF Inv, TypeOK

LEMMA PointsPushedOK ==
  ASSUME Inv, PointsPushed
  PROVE  Inv'
<1> DEFINE u == Head(down).user
           n == Head(down).value
<1>1. MessagesOK' /\ conn = "Connected" /\ u \in Users /\ n \in Int
  BY ReceiveOK DEF PointsPushed, Receive, IsMessage
<1>2. /\ RequestsOK' /\ UNCHANGED <<hub, conn, page, hooks, load, save, local, drafts>>
      /\ TasksOK' /\ Shows(page, local')
  BY <1>1, StillAsked DEF PointsPushed, view, status, Inv, TasksOK, PageOK
<1>3. DOMAIN copies' = Keys /\ \A key \in Keys : copies'[key] = null \/ Fits(key, copies'[key])
  <2>1. CASE "points" \in hooks /\ copies["points"] # null
    <3> DEFINE points == [copies["points"] EXCEPT ![u] = n]
    <3>1. copies' = [copies EXCEPT !["points"] = points]
      BY <2>1 DEF PointsPushed
    <3>2. copies["points"] \in [Users -> Int]
      BY <2>1 DEF Inv, TypeOK
    <3>3. Fits("points", points)
      BY <1>1, <3>2 DEF Fits, Ui, Queue, Tables
    <3> HIDE DEF points
    <3> QED BY <3>1, <3>3 DEF Inv, TypeOK, DataOK
  <2>2. CASE UNCHANGED copies
    BY <2>2, SameCopies
  <2> QED BY <2>1, <2>2 DEF PointsPushed
<1>4. \A key \in Tables : copies'[key] # absent
  <2>1. \A key \in Tables : copies'[key] = copies[key]
    BY TablesKept DEF PointsPushed, Inv, TypeOK
  <2> QED BY <2>1 DEF Inv, DataOK
<1> QED BY <1>1, <1>2, <1>3, <1>4, HeardStepOK DEF Inv, TypeOK

\* There is a smallest size of a page.
LEMMA DefaultSize == Table.per \in PageSizes
<1>1. IsWellFoundedOn(OpToRel(<, Nat), Nat)
  BY NatLessThanWellFounded
<1>2. PICK n \in PageSizes : \A m \in PageSizes : <<m, n>> \notin OpToRel(<, Nat)
  BY <1>1, WFMin, PointsAssumption
<1>3. \A m \in PageSizes : n <= m
  <2> TAKE m \in PageSizes
  <2>1. m \in Nat /\ n \in Nat
    BY PointsAssumption
  <2>2. ~ (m < n)
    BY <1>2, <2>1 DEF OpToRel
  <2> QED BY <2>1, <2>2
<1> QED BY <1>3 DEF Table

\* Pages of other kinds show nothing that matters here.
LEMMA ShowsOther ==
  \A p : \A d : p \notin DOMAIN TableOf \union {"queue", "users"} => Shows(p, d)
BY DEF Shows

LEMMA OtherPages ==
  {"home", "setup", "alerts", "loyalty", "server", "twitch", "ui"}
    \intersect (DOMAIN TableOf \union {"queue", "users"}) = {}
BY DEF TableOf

LEMMA UserInfoIsTask ==
  ASSUME NEW p \in {"twitch", "setup"}, NEW d
  PROVE  IsTask(Task("userInfo", p, d)) /\ IsTask(Task("testKeys", p, d))
BY DEF Task, IsTask

LEMMA AuthKeysPushedOK ==
  ASSUME Inv, AuthKeysPushed
  PROVE  Inv'
<1>1. MessagesOK' /\ conn = "Connected" /\ RequestsOK'
  BY ReceiveOK, StillAsked DEF AuthKeysPushed
<1>2. UNCHANGED <<hub, conn, copies, drafts, load, save, page, hooks>>
  BY DEF AuthKeysPushed, copy, status
<1>3. Shows(page, local') /\ TasksOK'
  <2>1. CASE "authKeys" \in hooks
    <3>1. page \in {"twitch", "setup"}
      BY <1>1, <2>1 DEF Inv, PageOK
    <3>2. tasks' = tasks \union {Task("userInfo", page, local)}
      BY <2>1 DEF AuthKeysPushed
    <3> QED BY <3>1, <3>2, UserInfoIsTask, ShowsOther, OtherPages DEF Inv, TasksOK
  <2>2. CASE "authKeys" \notin hooks
    BY <1>1, <2>2 DEF AuthKeysPushed, Inv, TasksOK, PageOK
  <2> QED BY <2>1, <2>2
<1> QED BY <1>1, <1>2, <1>3, SameCopies, HeardStepOK DEF Inv, TypeOK

LEMMA AuthKeysReadOK ==
  ASSUME Inv, AuthKeysRead
  PROVE  Inv'
<1>1. MessagesOK' /\ conn = "Connected" /\ RequestsOK'
  BY ReceiveOK, StillAsked DEF AuthKeysRead
<1>2. UNCHANGED <<hub, conn, copies, drafts, load, save, page, hooks, tasks>>
  BY DEF AuthKeysRead, copy, status
<1>3. Shows(page, local')
  <2>1. CASE page = "setup"
    BY <2>1, ShowsOther, OtherPages
  <2>2. CASE page # "setup"
    BY <1>1, <2>2 DEF AuthKeysRead, Step, Here, Inv, PageOK
  <2> QED BY <2>1, <2>2
<1> QED BY <1>1, <1>2, <1>3, SameCopies, HeardStepOK DEF Inv, TypeOK, TasksOK

LEMMA BotSavedAsks ==
  ASSUME Inv, NEW task \in tasks, BotSaved(task)
  PROVE  /\ \E reqs : Asks(reqs) /\ \E r \in ToSet(reqs) : AsksFor(r, Twitch)
         /\ TasksOK'
<1> DEFINE put == PutThen(Bot, Spread(task.bot, "text", task.user), task.bot, "setStep")
<1>1. IsRequest(Get(Twitch)) /\ Get(Twitch).op = "get" /\ AsksFor(Get(Twitch), Twitch)
  BY GetAsks, PlainKeys DEF Plainly, Stored, Keys
<1>2. IsRequest(put) /\ put.op = "put"
  BY PutSaves, PlainKeys, PlainFits DEF Plainly, Disabling, Bot
<1>3. IsTask(task) /\ IsTask([task EXCEPT !.does = "setStep"])
  BY DEF Inv, TasksOK, IsTask
<1>4. CASE task.keys = null
  <2>1. Asks(<<Get(Twitch)>>)
    BY <1>1, <1>4, OneHeld DEF BotSaved, Asks
  <2> QED BY <1>1, <1>4, <2>1, OneHeld DEF BotSaved, Inv, TasksOK
<1>5. CASE task.keys # null
  <2>1. Asks(<<Get(Twitch), put>>)
    BY <1>1, <1>2, <1>5, TwoHeld DEF BotSaved, Asks
  <2> QED BY <1>1, <1>3, <1>5, <2>1, TwoHeld DEF BotSaved, Inv, TasksOK
<1> QED BY <1>4, <1>5

LEMMA BotSavedOK ==
  ASSUME Inv, NEW task \in tasks, BotSaved(task)
  PROVE  Inv'
<1>1. PICK reqs : Asks(reqs)
  BY BotSavedAsks
<1>2. load' \in [Modules -> Statuses] /\ save' \in [Modules -> Statuses]
  BY DEF BotSaved, Answered, Inv, TypeOK, Statuses
<1> QED BY <1>1, <1>2, BotSavedAsks, AnswerOK DEF BotSaved, Answered

LEMMA StepSavedAsks ==
  ASSUME Inv, NEW task \in tasks, StepSaved(task)
  PROVE  /\ \E reqs : Asks(reqs) /\ \E r \in ToSet(reqs) : AsksFor(r, Bot)
         /\ TasksOK'
<1> DEFINE put == Put(Ui, Spread(task.ui, "step", Done), task.ui)
<1>1. IsRequest(Get(Bot)) /\ Get(Bot).op = "get" /\ AsksFor(Get(Bot), Bot)
  BY GetAsks, PlainKeys DEF Plainly, Stored, Keys
<1>2. IsRequest(put) /\ put.op = "put"
  <2>1. Fits(Ui, Spread(task.ui, "step", Done))
    BY StepAfter, NoStep DEF Fits, Ui, Queue, Tables, Steps
  <2> QED BY <2>1, PutSaves, UiIsStored DEF Put
<1>3. Asks(<<Get(Bot), put>>)
  BY <1>1, <1>2, TwoHeld DEF StepSaved, Asks
<1> QED BY <1>1, <1>3, TwoHeld DEF StepSaved, Ends, Inv, TasksOK

LEMMA StepSavedOK ==
  ASSUME Inv, NEW task \in tasks, StepSaved(task)
  PROVE  Inv'
<1>1. PICK reqs : Asks(reqs)
  BY StepSavedAsks
<1>2. load' \in [Modules -> Statuses] /\ save' \in [Modules -> Statuses]
  BY DEF StepSaved, Answered, Inv, TypeOK, Statuses
<1> QED BY <1>1, <1>2, StepSavedAsks, AnswerOK DEF StepSaved, Answered

-----------------------------------------------------------------------------
(* Mounting.                                                               *)

MountRequests(s) ==
  /\ IsSeq(s) /\ ReadFirst(s)
  /\ \A r \in ToSet(s) : IsRequest(r) /\ r.op \in {"get", "sub", "unsub"}
Asked(s, k) == \E r \in ToSet(s) : AsksFor(r, k)

LEMMA MountTogether ==
  ASSUME NEW s, NEW t, MountRequests(s), MountRequests(t)
  PROVE  /\ MountRequests(s \o t)
         /\ \A k : Asked(s \o t, k) <=> Asked(s, k) \/ Asked(t, k)
<1>1. IsSeq(s) /\ IsSeq(t)
  BY DEF MountRequests
<1>2. /\ IsSeq(s \o t) /\ ToSet(s \o t) = ToSet(s) \union ToSet(t)
      /\ Len(s) \in Nat /\ Len(t) \in Nat
      /\ DOMAIN s = 1 .. Len(s) /\ DOMAIN t = 1 .. Len(t)
      /\ \A i \in DOMAIN s : (s \o t)[i] = s[i]
      /\ \A i \in DOMAIN t : (s \o t)[i + Len(s)] = t[i]
      /\ \A i \in DOMAIN (s \o t) : i \in DOMAIN s \/ i - Len(s) \in DOMAIN t
      /\ DOMAIN (s \o t) = 1 .. Len(s) + Len(t)
  BY <1>1, BothHeld
<1>3. ReadFirst(s \o t)
  <2> SUFFICES ASSUME NEW i \in DOMAIN (s \o t), (s \o t)[i].op = "sub",
                      (s \o t)[i].key = "points"
               PROVE  \E j \in 1 .. i - 1 : AsksFor((s \o t)[j], "points")
    BY DEF ReadFirst
  <2>1. CASE i \in DOMAIN s
    <3>1. PICK j \in 1 .. i - 1 : AsksFor(s[j], "points")
      BY <1>2, <2>1 DEF MountRequests, ReadFirst
    <3> QED BY <1>2, <2>1, <3>1
  <2>2. CASE i - Len(s) \in DOMAIN t
    <3>1. (s \o t)[i] = t[i - Len(s)]
      BY <1>2, <2>2
    <3>2. PICK j \in 1 .. i - Len(s) - 1 : AsksFor(t[j], "points")
      BY <2>2, <3>1 DEF MountRequests, ReadFirst
    <3>3. j \in DOMAIN t /\ (s \o t)[j + Len(s)] = t[j] /\ j + Len(s) \in 1 .. i - 1
      BY <1>2, <2>2, <3>2
    <3> QED BY <3>2, <3>3
  <2> QED BY <1>2, <2>1, <2>2
<1> QED BY <1>2, <1>3 DEF MountRequests, Asked

LEMMA MountNothing == MountRequests(<<>>) /\ \A k : ~Asked(<<>>, k)
BY NoneHeld DEF MountRequests, Asked, ReadFirst

LEMMA MountOne ==
  ASSUME NEW r, IsRequest(r), r.op \in {"get", "sub", "unsub"},
         r.op = "sub" => r.key # "points"
  PROVE  MountRequests(<<r>>) /\ \A k : AsksFor(r, k) => Asked(<<r>>, k)
BY OneHeld DEF MountRequests, Asked, ReadFirst

LEMMA UnmountingAsks ==
  ASSUME NEW ks
  PROVE  MountRequests(Unmounting(ks))
<1>1. IsRequest(Unsub(ks)) /\ Unsub(ks).op = "unsub"
  BY DEF Unsub, IsRequest
<1> QED BY <1>1, MountNothing, MountOne DEF Unmounting

LEMMA PairIs ==
  ASSUME NEW a, NEW b
  PROVE  <<a>> \o <<b>> = <<a, b>>
<1> DEFINE s == <<a>>
           t == <<b>>
           u == <<a, b>>
<1>1. s \in Seq({a, b}) /\ t \in Seq({a, b}) /\ u \in Seq({a, b}) /\ Len(s) = 1 /\ Len(t) = 1
      /\ Len(u) = 2 /\ s[1] = a /\ t[1] = b /\ u[1] = a /\ u[2] = b
  OBVIOUS
<1> HIDE DEF s, t, u
<1>2. /\ s \o t \in Seq({a, b}) /\ Len(s \o t) = 2
      /\ \A i \in 1 .. 2 : (s \o t)[i] = IF i <= 1 THEN s[i] ELSE t[i - 1]
  BY <1>1, ConcatProperties
<1>3. \A i \in 1 .. 2 : (s \o t)[i] = u[i]
  BY <1>1, <1>2
<1>4. s \o t = u
  BY <1>1, <1>2, <1>3, SeqEqual
<1> QED BY <1>4 DEF s, t, u

\* What the hook of one component asks.
LEMMA HookAsks ==
  ASSUME NEW k \in Keys, NEW rest, rest \in {<<>>, <<Sub(k)>>}
  PROVE  MountRequests(<<Get(k)>> \o rest) /\ Asked(<<Get(k)>> \o rest, k)
<1>1. /\ IsRequest(Get(k)) /\ Get(k).op = "get" /\ AsksFor(Get(k), k)
      /\ IsRequest(Sub(k)) /\ Sub(k).op = "sub" /\ Sub(k).key = k
  BY GetAsks DEF Stored, Sub, IsRequest
<1>2. MountRequests(<<Get(k)>>) /\ Asked(<<Get(k)>>, k)
  BY <1>1, MountOne
<1>3. CASE rest = <<>>
  BY <1>2, <1>3, MountNothing, MountTogether
<1>4. CASE rest = <<Sub(k)>> /\ k # "points"
  <2>1. MountRequests(rest)
    BY <1>1, <1>4, MountOne
  <2> QED BY <1>2, <2>1, MountTogether
<1>5. CASE rest = <<Sub(k)>> /\ k = "points"
  <2> DEFINE s == <<Get(k), Sub(k)>>
  <2>1. <<Get(k)>> \o rest = s
    BY <1>5, PairIs
  <2>2. IsSeq(s) /\ ToSet(s) = {Get(k), Sub(k)}
    BY TwoHeld
  <2>3. s[1] = Get(k) /\ s[2] = Sub(k) /\ DOMAIN s = 1 .. 2
    OBVIOUS
  <2> HIDE DEF s
  <2>4. ReadFirst(s)
    <3> SUFFICES ASSUME NEW i \in DOMAIN s, s[i].op = "sub"
                 PROVE  \E j \in 1 .. i - 1 : AsksFor(s[j], "points")
      BY DEF ReadFirst
    <3>1. i = 2
      BY <1>1, <2>3
    <3> QED BY <1>1, <1>5, <2>3, <3>1
  <2> QED BY <1>1, <2>1, <2>2, <2>4 DEF MountRequests, Asked
<1> QED BY <1>3, <1>4, <1>5

\* The keys of the components of a page.
HookList(ks) == IsSeq(ks) /\ DOMAIN ks \subseteq 1 .. 4 /\ ToSet(ks) \subseteq Keys

LEMMA MountingAsks ==
  ASSUME NEW ks, HookList(ks), NEW others
  PROVE  /\ MountRequests(Mounting(ks, others))
         /\ \A k \in ToSet(ks) : Asked(Mounting(ks, others), k)
<1> DEFINE A(i) == IF i \notin DOMAIN ks THEN <<>>
                   ELSE <<Get(ks[i])>> \o
                        IF ks[i] \in others \union {ks[j] : j \in 1 .. i - 1} THEN <<>>
                        ELSE <<Sub(ks[i])>>
<1>1. ASSUME NEW i \in 1 .. 4
      PROVE  MountRequests(A(i)) /\ (i \in DOMAIN ks => Asked(A(i), ks[i]))
  <2>1. CASE i \notin DOMAIN ks
    BY <2>1, MountNothing
  <2>2. CASE i \in DOMAIN ks
    <3>1. ks[i] \in Keys
      BY <2>2 DEF HookList, ToSet
    <3> DEFINE rest == IF ks[i] \in others \union {ks[j] : j \in 1 .. i - 1} THEN <<>>
                       ELSE <<Sub(ks[i])>>
    <3>2. A(i) = <<Get(ks[i])>> \o rest
      BY <2>2
    <3>3. rest \in {<<>>, <<Sub(ks[i])>>}
      OBVIOUS
    <3> HIDE DEF rest, A
    <3> QED BY <3>1, <3>2, <3>3, HookAsks
  <2> QED BY <2>1, <2>2
<1>2. Mounting(ks, others) = ((A(1) \o A(2)) \o A(3)) \o A(4)
  BY DEF Mounting
<1> HIDE DEF A
<1>3. MountRequests(A(1)) /\ MountRequests(A(2)) /\ MountRequests(A(3)) /\ MountRequests(A(4))
  BY <1>1
<1>4. /\ MountRequests(A(1) \o A(2))
      /\ \A k : Asked(A(1), k) \/ Asked(A(2), k) => Asked(A(1) \o A(2), k)
  BY <1>3, MountTogether
<1>5. /\ MountRequests((A(1) \o A(2)) \o A(3))
      /\ \A k : Asked(A(1) \o A(2), k) \/ Asked(A(3), k)
                  => Asked((A(1) \o A(2)) \o A(3), k)
  BY <1>3, <1>4, MountTogether
<1>6. /\ MountRequests(((A(1) \o A(2)) \o A(3)) \o A(4))
      /\ \A k : Asked((A(1) \o A(2)) \o A(3), k) \/ Asked(A(4), k)
                  => Asked(((A(1) \o A(2)) \o A(3)) \o A(4), k)
  BY <1>3, <1>5, MountTogether
<1>7. ASSUME NEW i \in DOMAIN ks PROVE Asked(Mounting(ks, others), ks[i])
  <2>1. i \in {1, 2, 3, 4} /\ Asked(A(i), ks[i])
    BY <1>1 DEF HookList
  <2> QED BY <1>2, <1>4, <1>5, <1>6, <2>1
<1> QED BY <1>2, <1>6, <1>7 DEF ToSet

LEMMA NoHooks == HookList(<<>>) /\ ToSet(<<>>) = {}
BY NoneHeld DEF HookList

LEMMA OneHook == ASSUME NEW k \in Keys PROVE HookList(<<k>>) /\ ToSet(<<k>>) = {k}
<1>1. DOMAIN <<k>> = 1 .. 1
  OBVIOUS
<1>2. IsSeq(<<k>>) /\ ToSet(<<k>>) = {k}
  BY OneHeld
<1> DEFINE s == <<k>>
<1> HIDE DEF s
<1> QED BY <1>1, <1>2 DEF HookList

LEMMA TwoHooks ==
  ASSUME NEW k \in Keys, NEW l \in Keys
  PROVE  HookList(<<k, l>>) /\ ToSet(<<k, l>>) = {k, l}
<1>1. DOMAIN <<k, l>> = 1 .. 2
  OBVIOUS
<1>2. IsSeq(<<k, l>>) /\ ToSet(<<k, l>>) = {k, l}
  BY TwoHeld
<1> DEFINE s == <<k, l>>
<1> HIDE DEF s
<1> QED BY <1>1, <1>2 DEF HookList

LEMMA ThreeHeld ==
  ASSUME NEW a, NEW b, NEW c
  PROVE  IsSeq(<<a, b, c>>) /\ ToSet(<<a, b, c>>) = {a, b, c}
BY DEF ToSet, IsSeq

LEMMA ThreeHooks ==
  ASSUME NEW k \in Keys, NEW l \in Keys, NEW m \in Keys
  PROVE  HookList(<<k, l, m>>) /\ ToSet(<<k, l, m>>) = {k, l, m}
<1>1. DOMAIN <<k, l, m>> = 1 .. 3
  OBVIOUS
<1>2. IsSeq(<<k, l, m>>) /\ ToSet(<<k, l, m>>) = {k, l, m}
  BY ThreeHeld
<1> DEFINE s == <<k, l, m>>
<1> HIDE DEF s
<1> QED BY <1>1, <1>2 DEF HookList

\* The page's own component comes after those of its parts.
LEMMA HooksWithOwn ==
  ASSUME NEW ks, HookList(ks), Len(ks) \in 0 .. 3, NEW k \in Keys
  PROVE  HookList(ks \o <<k>>) /\ ToSet(ks \o <<k>>) = ToSet(ks) \union {k}
<1>0. Len(<<k>>) = 1
  OBVIOUS
<1>1. IsSeq(<<k>>) /\ ToSet(<<k>>) = {k}
  BY OneHeld
<1> DEFINE own == <<k>>
<1>2. Len(own) = 1 /\ IsSeq(own) /\ ToSet(own) = {k}
  BY <1>0, <1>1
<1> HIDE DEF own
<1> DEFINE both == ks \o own
<1>3. IsSeq(ks) /\ ToSet(ks) \subseteq Keys
  BY DEF HookList
<1>4. IsSeq(both) /\ ToSet(both) = ToSet(ks) \union ToSet(own)
      /\ DOMAIN both = 1 .. Len(ks) + Len(own)
  BY <1>2, <1>3, BothHeld
<1> HIDE DEF both
<1>5. DOMAIN both \subseteq 1 .. 4
  <2>1. \A n \in 0 .. 3 : 1 .. n + 1 \subseteq 1 .. 4
    OBVIOUS
  <2>2. DOMAIN both = 1 .. Len(ks) + 1
    BY <1>2, <1>4, Zenon
  <2> QED BY <2>1, <2>2, Zenon
<1>6. HookList(both) /\ ToSet(both) = ToSet(ks) \union {k}
  BY <1>2, <1>3, <1>4, <1>5 DEF HookList
<1>7. both = ks \o <<k>>
  BY DEF both, own
<1> QED BY <1>6, <1>7, Zenon

LEMMA TheKeys ==
  /\ {Ui, Twitch, Bot, Http, Loyalty, Alerts, Rewards, Goals, Commands, Timers, Queue}
       \subseteq Modules
  /\ Modules \subseteq Keys /\ "points" \in Keys \ Modules
  /\ Keys \subseteq Stored /\ "authKeys" \in Stored \ Keys
BY DEF Ui, Twitch, Bot, Http, Loyalty, Alerts, Rewards, Goals, Commands, Timers, Queue,
       Modules, Keys, Stored

LEMMA StepHooksAre ==
  /\ StepHooks[Landing] = <<>>
  /\ StepHooks[TwitchIntegration] = <<Http, Twitch, Ui>>
  /\ StepHooks[TwitchEvents] = <<Twitch, Bot, Ui>>
  /\ StepHooks[Done] = <<Ui>>
BY DEF StepHooks, Steps, Landing, TwitchIntegration, TwitchEvents, Done

LEMMA StepHooksList ==
  ASSUME NEW step \in Steps
  PROVE  /\ HookList(StepHooks[step]) /\ Len(StepHooks[step]) \in 0 .. 3
         /\ ToSet(StepHooks[step]) \subseteq Modules
<1>1. CASE step = Landing
  BY <1>1, StepHooksAre, NoHooks
<1>2. CASE step = TwitchIntegration
  BY <1>2, StepHooksAre, TheKeys, ThreeHooks
<1>3. CASE step = TwitchEvents
  BY <1>3, StepHooksAre, TheKeys, ThreeHooks
<1>4. CASE step = Done
  BY <1>4, StepHooksAre, TheKeys, OneHook
<1> QED BY <1>1, <1>2, <1>3, <1>4 DEF Steps

LEMMA SetupHooksList ==
  ASSUME NEW step \in Steps
  PROVE  /\ HookList(SetupHooks(step)) /\ ToSet(SetupHooks(step)) \subseteq Modules
         /\ ToSet(SetupHooks(step)) = ToSet(StepHooks[step]) \union {Ui}
BY StepHooksList, HooksWithOwn, TheKeys DEF SetupHooks

LEMMA TabHooksList ==
  /\ TabHooks["api"] = <<Http, Twitch>> /\ TabHooks["bot"] = <<Bot, Twitch>>
  /\ DOMAIN TabHooks = {"api", "events", "bot"} /\ ToSet(TabHooks["events"]) = {"authKeys"}
BY OneHeld DEF TabHooks

LEMMA TwitchHooksList ==
  /\ HookList(TwitchHooks) /\ ToSet(TwitchHooks) \subseteq Modules
  /\ Twitch \in ToSet(TwitchHooks)
<1>1. HookList(<<Http, Twitch>>) /\ ToSet(<<Http, Twitch>>) = {Http, Twitch}
  BY TheKeys, TwoHooks
<1>2. Len(<<Http, Twitch>>) = 2
  OBVIOUS
<1>3. /\ HookList(<<Http, Twitch>> \o <<Twitch>>)
      /\ ToSet(<<Http, Twitch>> \o <<Twitch>>) = {Http, Twitch} \union {Twitch}
  BY <1>1, <1>2, TheKeys, HooksWithOwn
<1> QED BY <1>3, TabHooksList, TheKeys DEF TwitchHooks

LEMMA PageHooksList ==
  ASSUME Inv, NEW p \in Pages
  PROVE  /\ HookList(PageHooks(p)) /\ ToSet(PageHooks(p)) \subseteq Keys
         /\ p \in DOMAIN Main => Main[p] \in ToSet(PageHooks(p))
<1>0. StepOf(copies[Ui]) \in Steps
  BY NoStep, TheKeys DEF Inv, DataOK, Fits
<1>1. CASE p = "home"
  BY <1>1, NoHooks DEF PageHooks, Main
<1>2. CASE p = "setup"
  BY <1>0, <1>2, SetupHooksList, TheKeys DEF PageHooks, Main
<1>3. CASE p = "rewards"
  BY <1>3, TwoHooks, TheKeys DEF PageHooks, Main
<1>4. CASE p = "goals"
  BY <1>4, TwoHooks, TheKeys DEF PageHooks, Main
<1>5. CASE p = "commands"
  BY <1>5, OneHook, TheKeys DEF PageHooks, Main
<1>6. CASE p = "timers"
  BY <1>6, OneHook, TheKeys DEF PageHooks, Main
<1>7. CASE p = "queue"
  BY <1>7, TwoHooks, TheKeys DEF PageHooks, Main
<1>8. CASE p = "users"
  BY <1>8, TwoHooks, TheKeys DEF PageHooks, Main
<1>9. CASE p = "alerts"
  BY <1>9, OneHook, TheKeys DEF PageHooks, Main
<1>10. CASE p = "loyalty"
  BY <1>10, OneHook, TheKeys DEF PageHooks, Main
<1>11. CASE p = "server"
  BY <1>11, OneHook, TheKeys DEF PageHooks, Main
<1>12. CASE p = "twitch"
  BY <1>12, TwitchHooksList, TheKeys DEF PageHooks, Main
<1>13. CASE p = "ui"
  BY <1>13, OneHook, TheKeys DEF PageHooks, Main
<1> QED BY PagesAssumption, <1>1, <1>2, <1>3, <1>4, <1>5, <1>6, <1>7, <1>8, <1>9, <1>10,
           <1>11, <1>12, <1>13

LEMMA PageLocalShown ==
  ASSUME NEW p \in Pages, NEW n
  PROVE  Shows(p, [f \in DOMAIN PageLocal(p) |-> IF f = "n" THEN n ELSE PageLocal(p)[f]])
<1>1. CASE p \in DOMAIN TableOf
  <2>1. PageLocal(p) = Closed
    BY <1>1 DEF PageLocal, TableOf
  <2> DEFINE d == [f \in DOMAIN PageLocal(p) |-> IF f = "n" THEN n ELSE PageLocal(p)[f]]
  <2>2. DOMAIN d = DOMAIN Closed /\ \A f \in DOMAIN Closed \ {"n"} : d[f] = Closed[f]
    BY <2>1
  <2>3. /\ "id" \in DOMAIN Closed /\ "kind" \in DOMAIN Closed /\ "info" \in DOMAIN Closed
        /\ Closed.id = "" /\ Closed.kind = "closed" /\ Closed.info = [on |-> FALSE, text |-> ""]
    BY DEF Closed
  <2>4. d.id = "" /\ d.kind = "closed" /\ d.info = [on |-> FALSE, text |-> ""]
    BY <2>2, <2>3
  <2>5. p \notin {"queue", "users"}
    BY <1>1 DEF TableOf
  <2> HIDE DEF d
  <2> DEFINE i == [on |-> FALSE, text |-> ""]
  <2>6. DOMAIN i = {"on", "text"} /\ i.text = "" /\ d.info = i
    BY <2>4
  <2>7. \A k : IsDialog(k, d)
    <3> HIDE DEF i
    <3> QED BY <2>2, <2>4, <2>6 DEF IsDialog
  <2>8. Shows(p, d)
    BY <2>5, <2>7 DEF Shows
  <2> QED BY <2>8 DEF d
<1>2. CASE p = "users"
  <2>1. PageLocal(p) = UsersLocal
    BY <1>2 DEF PageLocal
  <2>2. p \notin DOMAIN TableOf
    BY <1>2 DEF TableOf
  <2>3. IsPaging(Table)
    BY DefaultSize DEF IsPaging
  <2> QED BY <1>2, <2>1, <2>2, <2>3 DEF UsersLocal, Shows, IsUsersView
<1>3. CASE p = "queue"
  <2>1. PageLocal(p) = QueueLocal
    BY <1>3 DEF PageLocal
  <2>2. p \notin DOMAIN TableOf
    BY <1>3 DEF TableOf
  <2>3. IsPaging(Table)
    BY DefaultSize DEF IsPaging
  <2> QED BY <1>3, <2>1, <2>2, <2>3 DEF QueueLocal, Shows, IsQueueView
<1>4. CASE p \notin DOMAIN TableOf \union {"queue", "users"}
  BY <1>4, ShowsOther
<1> QED BY <1>1, <1>2, <1>3, <1>4

LEMMA AuthRequestsAsk ==
  ASSUME NEW step
  PROVE  MountRequests(AuthRequests(step))
<1>1. /\ IsRequest(Get("authKeys")) /\ Get("authKeys").op = "get"
      /\ IsRequest(Sub("authKeys")) /\ Sub("authKeys").op = "sub"
      /\ Sub("authKeys").key # "points"
  BY GetAsks, TheKeys DEF Sub, IsRequest
<1>2. MountRequests(<<Get("authKeys")>>) /\ MountRequests(<<Sub("authKeys")>>)
  BY <1>1, MountOne
<1>3. MountRequests(<<Get("authKeys"), Sub("authKeys")>>)
  BY <1>2, MountTogether, PairIs
<1> QED BY <1>3, MountNothing DEF AuthRequests

LEMMA PageRequestsAsk ==
  ASSUME Inv, NEW p \in Pages
  PROVE  /\ MountRequests(PageRequests(p))
         /\ \A k \in ToSet(PageHooks(p)) : Asked(PageRequests(p), k)
<1>1. CASE PageAuth(p) = {}
  BY <1>1, PageHooksList, MountingAsks DEF PageRequests
<1>2. CASE PageAuth(p) # {}
  <2> DEFINE first == Mounting(StepHooks[TwitchEvents], {})
             second == AuthRequests(TwitchEvents)
             last == Mounting(<<Ui>>, {Ui})
  <2>1. p = "setup" /\ StepOf(copies[Ui]) = TwitchEvents /\ TwitchEvents \in Steps
    BY <1>2 DEF PageAuth, AuthKeys, Steps
  <2>2. ToSet(PageHooks(p)) = ToSet(StepHooks[TwitchEvents]) \union {Ui}
    BY <2>1, SetupHooksList DEF PageHooks
  <2>3. MountRequests(first) /\ \A k \in ToSet(StepHooks[TwitchEvents]) : Asked(first, k)
    BY <2>1, StepHooksList, MountingAsks
  <2>4. MountRequests(second)
    BY AuthRequestsAsk
  <2>5. MountRequests(last) /\ Asked(last, Ui)
    BY OneHook, TheKeys, MountingAsks
  <2>6. PageRequests(p) = (first \o second) \o last
    BY <1>2 DEF PageRequests
  <2> HIDE DEF first, second, last
  <2>7. MountRequests(first \o second) /\ \A k : Asked(first, k) => Asked(first \o second, k)
    BY <2>3, <2>4, MountTogether
  <2> QED BY <2>2, <2>3, <2>5, <2>6, <2>7, MountTogether
<1> QED BY <1>1, <1>2

-----------------------------------------------------------------------------
(* The steps of the pages.                                                 *)

LEMMA AsksNothing ==
  ASSUME Inv, UNCHANGED up
  PROVE  Asks(<<>>) /\ ToSet(<<>>) = {}
<1>1. up \o <<>> = up
  BY ConcatEmptySeq DEF Inv, RequestsOK
<1> QED BY <1>1, NoneHeld DEF Asks, Send

\* Nothing is sent.
LEMMA StaysOnPage ==
  ASSUME Inv, UNCHANGED <<hub, wire, conn, copy, page, hooks>>,
         load' \in [Modules -> Statuses], save' \in [Modules -> Statuses],
         \A k \in Modules : load'[k] = "pending" => load[k] = "pending",
         \A k \in Disabling : load'[k] = load[k],
         \A k \in Disabling : save'[k] = "pending" => save[k] = "pending",
         conn = "Connected" => Shows(page, local'), TasksOK'
  PROVE  PageStep
<1>1. Asks(<<>>) /\ ToSet(<<>>) = {}
  BY AsksNothing DEF wire
<1>2. StatusFits(ToSet(<<>>))
  BY DEF StatusFits
<1> QED BY <1>1, <1>2 DEF PageStep, wire, TasksOK

LEMMA SameStatus ==
  ASSUME Inv, UNCHANGED status
  PROVE  /\ load' \in [Modules -> Statuses] /\ save' \in [Modules -> Statuses]
         /\ \A R : StatusFits(R)
BY DEF Inv, TypeOK, status, StatusFits

LEMMA TurnedStep ==
  ASSUME Inv, NEW d, Input(d) \/ Turned(d), conn = "Connected" => Shows(page, d)
  PROVE  PageStep
<1>1. UNCHANGED <<hub, wire, conn, copy, status, page, hooks, tasks>> /\ local' = d
  BY DEF Input, Turned
<1> QED BY <1>1, StaysOnPage, SameStatus DEF Inv, TasksOK, status

\* One request, which is no save of a form.
LEMMA SentStep ==
  ASSUME Inv, NEW reqs, Asks(reqs),
         UNCHANGED <<hub, down, conn, copy, status, page, hooks>>,
         conn = "Connected" => Shows(page, local'), TasksOK'
  PROVE  PageStep
BY SameStatus DEF PageStep, TasksOK

LEMMA ClickedStep ==
  ASSUME Inv, NEW k \in Modules, NEW v, Fits(k, v), k \in Tables => IsEdit(k, copies[k], v),
         NEW d, Clicked(k, v, d), conn = "Connected" => Shows(page, d),
         k \in Disabling => \E p \in DOMAIN Main : Here(p) /\ Main[p] = k
  PROVE  PageStep
<1> DEFINE r == Put(k, v, copies[k])
<1>1. IsRequest(r) /\ r.op = "put" /\ Saves(r, k)
  BY PutSaves DEF Put
<1>2. Asks(<<r>>) /\ ToSet(<<r>>) = {r}
  BY <1>1, OneHeld DEF Clicked, Save, Asks
<1> HIDE DEF r
<1>3. StatusFits({r})
  BY <1>1 DEF StatusFits, Clicked, Save, Inv, TypeOK, Statuses
<1> QED BY <1>2, <1>3 DEF PageStep, Clicked, Inv, TasksOK

\* A click that leaves the state of the page as it is.
LEMMA SameShown ==
  ASSUME Inv
  PROVE  conn = "Connected" => Shows(page, local)
BY DEF Inv, PageOK

LEMMA OpenDialogStep ==
  ASSUME Inv, NEW k \in Modules \ Disabling, NEW d, OpenDialog(k, d), conn = "Connected" => Shows(page, d)
  PROVE  PageStep
<1>1. IsRequest(Get(k)) /\ Get(k).op = "get" /\ AsksFor(Get(k), k)
  BY GetAsks, TheKeys
<1>2. Asks(<<Get(k)>>) /\ ToSet(<<Get(k)>>) = {Get(k)}
  BY <1>1, OneHeld DEF OpenDialog, DialogMounted, Asks
<1>3. StatusFits({Get(k)})
  BY <1>1 DEF StatusFits, OpenDialog, DialogMounted, Inv, TypeOK, Statuses
<1> QED BY <1>2, <1>3 DEF PageStep, OpenDialog, Inv, TasksOK

LEMMA CloseDialogStep ==
  ASSUME Inv, NEW k \in Modules \ Disabling, CloseDialog(k), conn = "Connected" => Shows(page, Closed)
  PROVE  PageStep
<1>1. /\ load' \in [Modules -> Statuses] /\ save' \in [Modules -> Statuses]
      /\ \A l \in Modules : load'[l] = "pending" => load[l] = "pending"
      /\ \A l \in Modules \ {k} : load'[l] = load[l]
      /\ \A l \in Modules : save'[l] = "pending" => save[l] = "pending"
  BY DEF CloseDialog, DialogUnmounted, Inv, TypeOK, Statuses
<1>2. Disabling \subseteq Modules
  BY DEF Disabling, Modules
<1> QED BY <1>1, <1>2, StaysOnPage DEF CloseDialog, Inv, TasksOK

-----------------------------------------------------------------------------
(* The pages of the tables.                                                *)

LEMMA TablePages ==
  ASSUME NEW p \in DOMAIN TableOf
  PROVE  /\ TableOf[p] \in Tables /\ TableOf[p] \in Modules \ Disabling
         /\ \A d : Shows(p, d) <=> IsDialog(TableOf[p], d)
BY DEF TableOf, Tables, Modules, Disabling, Shows

LEMMA TablesOf ==
  /\ TableOf["rewards"] = Rewards /\ TableOf["goals"] = Goals
  /\ TableOf["commands"] = Commands /\ TableOf["timers"] = Timers
  /\ DOMAIN TableOf = {"rewards", "goals", "commands", "timers"}
BY DEF TableOf, Rewards, Goals, Commands, Timers

\* What a page of a table shows, and what its copy is.
LEMMA OnTable ==
  ASSUME Inv, NEW p \in DOMAIN TableOf, Here(p)
  PROVE  /\ page = p /\ conn = "Connected" /\ IsDialog(TableOf[p], local)
         /\ copies[TableOf[p]] = null \/ Fits(TableOf[p], copies[TableOf[p]])
         /\ TableOf[p] \in Tables /\ TableOf[p] \in Modules \ Disabling
         /\ \A d : Shows(page, d) <=> IsDialog(TableOf[p], d)
<1>1. TableOf[p] \in Keys
  BY TablePages, TheKeys
<1> QED BY <1>1, TablePages DEF Inv, PageOK, DataOK, Here

LEMMA ClosedIsDialog ==
  ASSUME NEW k
  PROVE  IsDialog(k, Closed)
BY DEF IsDialog, Closed

LEMMA NewIsDialog ==
  ASSUME NEW k \in Tables, NEW extra, extra = IF k = Goals THEN 0 ELSE ""
  PROVE  IsDialog(k, NewDialog(extra))
<1>1. Blank(extra) \in EntryOf(k)
  BY DEF Blank, EntryOf, Goals
<1> QED BY <1>1 DEF IsDialog, NewDialog, Closed

LEMMA EditIsDialog ==
  ASSUME Inv, NEW k \in Tables, NEW id \in Rows(k)
  PROVE  IsDialog(k, EditDialog(k, id)) /\ id \in Names(copies[k]) /\ id \in Typed
<1>1. k \in Keys
  BY DEF Tables, Keys, Modules
<1>2. copies[k] = null \/ Fits(k, copies[k])
  BY <1>1 DEF Inv, DataOK
<1>3. IsTable(k, copies[k]) /\ id \in DOMAIN copies[k] /\ id \in Typed
  BY <1>2, TableOrEmpty DEF Rows
<1>4. copies[k][id] \in EntryOf(k)
  BY <1>3 DEF IsTable
<1> QED BY <1>3, <1>4 DEF IsDialog, EditDialog, Closed, Rows

\* Input in a dialog keeps it one.
LEMMA TypedIsDialog ==
  ASSUME NEW k \in Tables, NEW d, IsDialog(k, d)
  PROVE  /\ \A id \in Typed : \A taken : IsDialog(k, [d EXCEPT !.id = id, !.taken = taken])
         /\ \A id \in Typed : \A fresh, taken :
              IsDialog(k, [d EXCEPT !.id = id, !.fresh = fresh, !.taken = taken])
         /\ \A bad : IsDialog(k, [d EXCEPT !.bad = bad])
<1>1. ASSUME NEW id \in Typed, NEW taken
      PROVE  IsDialog(k, [d EXCEPT !.id = id, !.taken = taken])
  BY DEF IsDialog, Closed
<1>2. ASSUME NEW id \in Typed, NEW fresh, NEW taken
      PROVE  IsDialog(k, [d EXCEPT !.id = id, !.fresh = fresh, !.taken = taken])
  BY DEF IsDialog, Closed
<1>3. ASSUME NEW bad PROVE IsDialog(k, [d EXCEPT !.bad = bad])
  BY DEF IsDialog, Closed
<1> QED BY <1>1, <1>2, <1>3

LEMMA FieldIsDialog ==
  ASSUME NEW k \in Tables, NEW d, IsDialog(k, d), d.kind # "closed", NEW text \in Texts
  PROVE  /\ IsDialog(k, [d EXCEPT !.entry.text = text])
         /\ \A v : IsDialog(k, [d EXCEPT !.entry.text = text, !.fresh = v])
         /\ \A v : IsDialog(k, [d EXCEPT !.entry.text = text, !.bad = v])
<1> DEFINE e == [d.entry EXCEPT !.text = text]
<1>1. e \in EntryOf(k)
  BY DEF IsDialog, EntryOf
<1>2. /\ [d EXCEPT !.entry.text = text] = [d EXCEPT !.entry = e]
      /\ \A v : [d EXCEPT !.entry.text = text, !.fresh = v] = [d EXCEPT !.entry = e, !.fresh = v]
      /\ \A v : [d EXCEPT !.entry.text = text, !.bad = v] = [d EXCEPT !.entry = e, !.bad = v]
  OBVIOUS
<1> HIDE DEF e
<1>3. /\ IsDialog(k, [d EXCEPT !.entry = e])
      /\ \A v : IsDialog(k, [d EXCEPT !.entry = e, !.fresh = v])
      /\ \A v : IsDialog(k, [d EXCEPT !.entry = e, !.bad = v])
  BY <1>1 DEF IsDialog, Closed
<1> QED BY <1>2, <1>3

LEMMA InfoIsDialog ==
  ASSUME NEW k \in Tables, NEW d, IsDialog(k, d), NEW e, IsDialog(k, e)
  PROVE  IsDialog(k, [e EXCEPT !.info = d.info])
BY DEF IsDialog, Closed

LEMMA DetailsIsDialog ==
  ASSUME NEW k \in Tables, NEW d, IsDialog(k, d), NEW text \in Texts
  PROVE  /\ IsDialog(k, [d EXCEPT !.info.on = ~@])
         /\ IsDialog(k, [d EXCEPT !.info.text = text])
<1> DEFINE ticked == [d.info EXCEPT !.on = ~d.info.on]
           typed == [d.info EXCEPT !.text = text]
<1>1. /\ DOMAIN ticked = {"on", "text"} /\ ticked.text = d.info.text
      /\ DOMAIN typed = {"on", "text"} /\ typed.text = text
  BY DEF IsDialog
<1>2. /\ [d EXCEPT !.info.on = ~@] = [d EXCEPT !.info = ticked]
      /\ [d EXCEPT !.info.text = text] = [d EXCEPT !.info = typed]
  OBVIOUS
<1> HIDE DEF ticked, typed
<1>3. IsDialog(k, [d EXCEPT !.info = ticked]) /\ IsDialog(k, [d EXCEPT !.info = typed])
  BY <1>1 DEF IsDialog, Closed
<1> QED BY <1>2, <1>3

\* Input, buttons of a row, and the submission of a form.
LEMMA TableInput ==
  ASSUME Inv, NEW p \in DOMAIN TableOf, Here(p), NEW d, IsDialog(TableOf[p], d),
         Input(d) \/ Turned(d)
  PROVE  PageStep
BY OnTable, TurnedStep

LEMMA RowStep ==
  ASSUME Inv, NEW p \in DOMAIN TableOf, NEW id, Row(p, TableOf[p], id),
         \/ Clicked(TableOf[p], Toggled(copies[TableOf[p]], id), local)
         \/ Clicked(TableOf[p], Without(copies[TableOf[p]], id), local)
  PROVE  PageStep
<1> DEFINE k == TableOf[p]
<1>1. /\ Here(p) /\ id \in Names(copies[k]) /\ k \in Tables /\ k \in Modules \ Disabling
      /\ copies[k] = null \/ Fits(k, copies[k])
  BY OnTable DEF Row, Free, Rows
<1>2. CASE Clicked(k, Toggled(copies[k], id), local)
  <2>1. IsEdit(k, copies[k], Toggled(copies[k], id))
    BY <1>1, ToggledIsEdit
  <2>2. Fits(k, Toggled(copies[k], id))
    BY <1>1, <2>1, TableIsThere DEF IsEdit
  <2> HIDE DEF k
  <2> QED BY <1>1, <1>2, <2>1, <2>2, SameShown, ClickedStep
<1>3. CASE Clicked(k, Without(copies[k], id), local)
  <2>1. IsEdit(k, copies[k], Without(copies[k], id))
    BY <1>1, WithoutIsEdit
  <2>2. Fits(k, Without(copies[k], id))
    BY <1>1, <2>1, TableIsThere DEF IsEdit
  <2> HIDE DEF k
  <2> QED BY <1>1, <1>3, <2>1, <2>2, SameShown, ClickedStep
<1> QED BY <1>2, <1>3

LEMMA FormStep ==
  ASSUME Inv, NEW p \in DOMAIN TableOf, Open(p), Valid(local), NEW e \in EntryOf(TableOf[p]),
         NEW d, IsDialog(TableOf[p], d),
         Clicked(TableOf[p], With(OrEmpty(copies[TableOf[p]]), local.id, e), d)
  PROVE  PageStep
<1> DEFINE k == TableOf[p]
           v == With(OrEmpty(copies[k]), local.id, e)
<1>1. /\ k \in Tables /\ k \in Modules \ Disabling /\ Shows(page, d)
      /\ copies[k] = null \/ Fits(k, copies[k])
      /\ local.id \in Typed
  BY OnTable DEF Open, Valid, IsDialog
<1>2. IsTable(k, v) /\ IsEdit(k, copies[k], v)
  BY <1>1, WithIsEdit
<1>3. Fits(k, v)
  BY <1>1, <1>2, TableIsThere
<1>4. Clicked(k, v, d)
  OBVIOUS
<1> HIDE DEF k, v
<1> QED BY <1>1, <1>2, <1>3, <1>4, ClickedStep

LEMMA RewardsStep ==
  ASSUME Inv, RewardsNext
  PROVE  PageStep
<1> DEFINE p == "rewards"
<1>0. p \in DOMAIN TableOf /\ TableOf[p] = Rewards /\ Rewards \in Tables /\ Rewards # Goals
  BY TablesOf, TablePages DEF Goals, Rewards
<1> HIDE DEF p
<1>1. ASSUME NEW id \in Typed, ToggleReward(id) PROVE PageStep
  BY <1>0, <1>1, RowStep DEF ToggleReward, p
<1>2. ASSUME NEW id \in Typed, DeleteReward(id) PROVE PageStep
  BY <1>0, <1>2, RowStep DEF DeleteReward, p
<1>3. ASSUME NEW id \in Typed, EditReward(id) PROVE PageStep
  <2>1. Here(p) /\ IsDialog(Rewards, local) /\ IsDialog(Rewards, EditDialog(Rewards, id))
    BY <1>0, <1>3, OnTable, EditIsDialog DEF EditReward, Row, Free, p
  <2>2. IsDialog(Rewards, [EditDialog(Rewards, id) EXCEPT !.info = local.info])
    BY <1>0, <2>1, InfoIsDialog
  <2> QED BY <1>0, <1>3, <2>1, <2>2, TableInput DEF EditReward
<1>4. ASSUME NEW id \in Typed, TypeRewardId(id) PROVE PageStep
  <2>1. Here(p) /\ IsDialog(Rewards, local) /\ SlugOf[id] \in Typed
    BY <1>0, <1>4, OnTable, EntryAssumption DEF TypeRewardId, Open, p
  <2>2. IsDialog(Rewards, TypeNewId(Rewards, id))
    BY <1>0, <2>1, TypedIsDialog DEF TypeNewId
  <2> QED BY <1>0, <1>4, <2>1, <2>2, TableInput DEF TypeRewardId
<1>5. ASSUME NEW text \in Texts, TypeRewardField(text) PROVE PageStep
  <2>1. Here(p) /\ IsDialog(Rewards, local) /\ local.kind # "closed"
    BY <1>0, <1>5, OnTable DEF TypeRewardField, Open, p
  <2>2. IsDialog(Rewards, [local EXCEPT !.entry.text = text, !.fresh = TRUE])
    BY <1>0, <2>1, FieldIsDialog
  <2> QED BY <1>0, <1>5, <2>1, <2>2, TableInput DEF TypeRewardField
<1>6. ASSUME NEW text \in Texts, TypeDetails(text) \/ TickDetails PROVE PageStep
  <2>1. Here(p) /\ IsDialog(Rewards, local)
    BY <1>0, <1>6, OnTable DEF TypeDetails, TickDetails, Open, p
  <2>2. /\ IsDialog(Rewards, [local EXCEPT !.info.on = ~@])
        /\ IsDialog(Rewards, [local EXCEPT !.info.text = text])
    BY <1>0, <2>1, DetailsIsDialog
  <2> QED BY <1>0, <1>6, <2>1, <2>2, TableInput DEF TypeDetails, TickDetails
<1>7. CASE NewReward
  <2>1. Here(p)
    BY <1>7 DEF NewReward, Free, p
  <2> QED BY <1>0, <1>7, <2>1, NewIsDialog, TableInput DEF NewReward
<1>8. CASE SubmitReward
  <2> DEFINE reward == IF local.info.on THEN [local.entry EXCEPT !.extra = local.info.text]
                       ELSE local.entry
             d == [Closed EXCEPT !.info = local.info]
  <2>1. Open(p) /\ Valid(local)
    BY <1>8 DEF SubmitReward, p
  <2>2. IsDialog(Rewards, local) /\ local.kind # "closed"
    BY <1>0, <2>1, OnTable DEF Open
  <2>3. reward \in EntryOf(Rewards)
    BY <1>0, <2>2 DEF IsDialog, EntryOf, Goals
  <2>4. IsDialog(Rewards, d)
    BY <1>0, <2>2, ClosedIsDialog, InfoIsDialog
  <2>5. Clicked(Rewards, With(OrEmpty(copies[Rewards]), local.id, reward), d)
    BY <1>8 DEF SubmitReward
  <2> HIDE DEF reward, d
  <2> QED BY <1>0, <2>1, <2>3, <2>4, <2>5, FormStep
<1>9. CASE CancelReward
  <2>1. Here(p) /\ IsDialog(Rewards, local)
    BY <1>0, <1>9, OnTable DEF CancelReward, Open, p
  <2>2. IsDialog(Rewards, [Closed EXCEPT !.info = local.info])
    BY <1>0, <2>1, ClosedIsDialog, InfoIsDialog
  <2> QED BY <1>0, <1>9, <2>1, <2>2, TableInput DEF CancelReward
<1>10. Texts # {}
  BY EntryAssumption
<1> QED BY <1>1, <1>2, <1>3, <1>4, <1>5, <1>6, <1>7, <1>8, <1>9, <1>10 DEF RewardsNext

LEMMA GoalsStep ==
  ASSUME Inv, GoalsNext
  PROVE  PageStep
<1> DEFINE p == "goals"
<1>0. p \in DOMAIN TableOf /\ TableOf[p] = Goals /\ Goals \in Tables
  BY TablesOf, TablePages
<1> HIDE DEF p
<1>1. ASSUME NEW id \in Typed, ToggleGoal(id) PROVE PageStep
  BY <1>0, <1>1, RowStep DEF ToggleGoal, p
<1>2. ASSUME NEW id \in Typed, DeleteGoal(id) PROVE PageStep
  BY <1>0, <1>2, RowStep DEF DeleteGoal, p
<1>3. ASSUME NEW id \in Typed, EditGoal(id) PROVE PageStep
  <2>1. Here(p) /\ IsDialog(Goals, EditDialog(Goals, id))
    BY <1>0, <1>3, EditIsDialog DEF EditGoal, Row, Free, p
  <2> QED BY <1>0, <1>3, <2>1, TableInput DEF EditGoal
<1>4. ASSUME NEW id \in Typed, TypeGoalId(id) PROVE PageStep
  <2>1. Here(p) /\ IsDialog(Goals, local) /\ SlugOf[id] \in Typed
    BY <1>0, <1>4, OnTable, EntryAssumption DEF TypeGoalId, Open, p
  <2>2. IsDialog(Goals, TypeNewId(Goals, id))
    BY <1>0, <2>1, TypedIsDialog DEF TypeNewId
  <2> QED BY <1>0, <1>4, <2>1, <2>2, TableInput DEF TypeGoalId
<1>5. ASSUME NEW text \in Texts, TypeGoalField(text) PROVE PageStep
  <2>1. Here(p) /\ IsDialog(Goals, local) /\ local.kind # "closed"
    BY <1>0, <1>5, OnTable DEF TypeGoalField, Open, p
  <2>2. IsDialog(Goals, [local EXCEPT !.entry.text = text, !.fresh = TRUE])
    BY <1>0, <2>1, FieldIsDialog
  <2> QED BY <1>0, <1>5, <2>1, <2>2, TableInput DEF TypeGoalField
<1>6. CASE NewGoal
  <2>1. Here(p)
    BY <1>6 DEF NewGoal, Free, p
  <2> QED BY <1>0, <1>6, <2>1, NewIsDialog, TableInput DEF NewGoal
<1>7. CASE SubmitGoal
  <2>1. Open(p) /\ Valid(local)
    BY <1>7 DEF SubmitGoal, p
  <2>2. local.entry \in EntryOf(Goals)
    BY <1>0, <2>1, OnTable DEF Open, IsDialog
  <2> QED BY <1>0, <1>7, <2>1, <2>2, ClosedIsDialog, FormStep DEF SubmitGoal
<1>8. CASE CancelGoal
  <2>1. Here(p)
    BY <1>8 DEF CancelGoal, Open, p
  <2> QED BY <1>0, <1>8, <2>1, ClosedIsDialog, TableInput DEF CancelGoal
<1> QED BY <1>1, <1>2, <1>3, <1>4, <1>5, <1>6, <1>7, <1>8 DEF GoalsNext

LEMMA OpenTableDialog ==
  ASSUME Inv, NEW p \in DOMAIN TableOf, TableOf[p] \in {Commands, Timers}, Here(p),
         \/ OpenDialog(TableOf[p], NewDialog(""))
         \/ \E id \in Rows(TableOf[p]) : OpenDialog(TableOf[p], EditDialog(TableOf[p], id))
  PROVE  PageStep
<1> DEFINE k == TableOf[p]
<1>1. k \in Tables /\ k \in Modules \ Disabling /\ \A d : Shows(page, d) <=> IsDialog(k, d)
  BY OnTable
<1>2. k # Goals
  BY DEF Commands, Timers, Goals
<1>3. CASE OpenDialog(k, NewDialog(""))
  <2>1. IsDialog(k, NewDialog(""))
    BY <1>1, <1>2, NewIsDialog
  <2> HIDE DEF k
  <2> QED BY <1>1, <1>3, <2>1, OpenDialogStep
<1>4. ASSUME NEW id \in Rows(k), OpenDialog(k, EditDialog(k, id)) PROVE PageStep
  <2>1. IsDialog(k, EditDialog(k, id))
    BY <1>1, <1>4, EditIsDialog
  <2> HIDE DEF k
  <2> QED BY <1>1, <1>4, <2>1, OpenDialogStep
<1> QED BY <1>3, <1>4

LEMMA NameTyped ==
  ASSUME Inv, NEW p \in DOMAIN TableOf, Open(p), NEW typed \in Typed,
         Input(TypeName(TableOf[p], typed))
  PROVE  PageStep
<1>1. TableOf[p] \in Tables /\ IsDialog(TableOf[p], local) /\ Here(p)
  BY OnTable DEF Open
<1>2. IsDialog(TableOf[p], TypeName(TableOf[p], typed))
  BY <1>1, TypedIsDialog DEF TypeName
<1> QED BY <1>1, <1>2, TableInput

\* What the dialog of a command or of a timer saves.
LEMMA DialogSaves ==
  ASSUME NEW k \in {Commands, Timers}, NEW base, base = null \/ Fits(k, base),
         NEW d, IsDialog(k, d), d.kind # "closed", d.id # "",
         NEW v, v \in {With(OrEmpty(base), d.id, [d.entry EXCEPT !.on = TRUE]),
                       Renamed(base, d.old, d.id, d.entry)}
  PROVE  IsRequest(Put(k, v, base)) /\ Put(k, v, base).op = "put"
<1>1. k \in Tables /\ k \in Modules
  BY DEF Tables, Modules, Commands, Timers
<1>2. d.entry \in EntryOf(k) /\ [d.entry EXCEPT !.on = TRUE] \in EntryOf(k) /\ d.id \in Typed
  BY DEF IsDialog, EntryOf
<1>3. IsEdit(k, base, v)
  BY <1>1, <1>2, WithIsEdit, RenamedIsEdit
<1>4. Fits(k, v)
  BY <1>1, <1>3, TableIsThere DEF IsEdit
<1> QED BY <1>1, <1>3, <1>4, PutSaves DEF Put

LEMMA DialogGone ==
  ASSUME Inv, NEW k \in Modules \ Disabling, DialogUnmounted(k)
  PROVE  \A R : StatusFits(R)
<1>1. Disabling \subseteq Modules
  BY DEF Disabling, Modules
<1> QED BY <1>1 DEF DialogUnmounted, StatusFits, Inv, TypeOK, Statuses

LEMMA TemplateAcceptedStep ==
  ASSUME Inv, NEW task \in tasks, TemplateAccepted(task)
  PROVE  PageStep
<1> DEFINE d == task.dialog
           v == IF d.kind = "new"
                THEN With(OrEmpty(task.base), d.id, [d.entry EXCEPT !.on = TRUE])
                ELSE Renamed(task.base, d.old, d.id, d.entry)
           r == Put(Commands, v, task.base)
<1>1. /\ IsDialog(Commands, d) /\ d.kind # "closed" /\ d.id # ""
      /\ task.base = null \/ Fits(Commands, task.base)
  BY DEF TemplateAccepted, Inv, TasksOK, IsTask
<1>2. IsRequest(r) /\ r.op = "put"
  <2> DEFINE base == task.base
  <2>1. v \in {With(OrEmpty(base), d.id, [d.entry EXCEPT !.on = TRUE]),
               Renamed(base, d.old, d.id, d.entry)}
    OBVIOUS
  <2>2. r = Put(Commands, v, base)
    OBVIOUS
  <2>3. base = null \/ Fits(Commands, base)
    BY <1>1
  <2> HIDE DEF v, d, r, base
  <2>4. IsRequest(Put(Commands, v, base)) /\ Put(Commands, v, base).op = "put"
    BY <1>1, <2>1, <2>3, DialogSaves, Zenon
  <2> QED BY <2>2, <2>4, Zenon
<1>3. Asks(<<r>>)
  <2>1. Send(<<r>>)
    BY DEF TemplateAccepted
  <2> HIDE DEF r
  <2> QED BY <1>2, <2>1, OneHeld DEF Asks
<1> HIDE DEF r
<1>4. StatusFits(ToSet(<<r>>)) /\ (conn = "Connected" => Shows(page, local'))
  <2>1. CASE Open("commands") /\ task.mount = Mount
    <3>1. DialogUnmounted(Commands) /\ local' = Closed
      BY <2>1 DEF TemplateAccepted
    <3>2. Shows(page, Closed)
      BY <2>1, TablesOf, ClosedIsDialog, TablePages DEF Open, Here
    <3>3. \A R : StatusFits(R)
      BY <3>1, TablesOf, TablePages, DialogGone
    <3> QED BY <3>1, <3>2, <3>3
  <2>2. CASE ~(Open("commands") /\ task.mount = Mount)
    <3>1. save' = [save EXCEPT ![Commands] = "pending"] /\ UNCHANGED <<load, local>>
      BY <2>2 DEF TemplateAccepted
    <3>2. Commands \notin Disabling /\ Disabling \subseteq Modules
      BY DEF Disabling, Commands, Modules
    <3>3. StatusFits(ToSet(<<r>>))
      BY <3>1, <3>2 DEF StatusFits, Inv, TypeOK, Statuses
    <3> QED BY <3>1, <3>3, SameShown
  <2> QED BY <2>1, <2>2
<1> QED BY <1>3, <1>4 DEF PageStep, TemplateAccepted, Inv, TasksOK

LEMMA CommandsStep ==
  ASSUME Inv, CommandsNext
  PROVE  PageStep
<1> DEFINE p == "commands"
<1>0. p \in DOMAIN TableOf /\ TableOf[p] = Commands /\ Commands \in Tables
      /\ Commands \in {Commands, Timers} /\ Commands \in Modules
  BY TablesOf, TablePages, TheKeys
<1> HIDE DEF p
<1>1. ASSUME NEW id \in Typed, ToggleCommand(id) PROVE PageStep
  BY <1>0, <1>1, RowStep DEF ToggleCommand, p
<1>2. ASSUME NEW id \in Typed, DeleteCommand(id) PROVE PageStep
  BY <1>0, <1>2, RowStep DEF DeleteCommand, p
<1>3. ASSUME NEW typed \in Typed, TypeCommandName(typed) PROVE PageStep
  BY <1>0, <1>3, NameTyped DEF TypeCommandName, p
<1>4. ASSUME NEW text \in Texts, TypeCommandField(text) PROVE PageStep
  <2>1. Here(p) /\ IsDialog(Commands, local) /\ local.kind # "closed"
    BY <1>0, <1>4, OnTable DEF TypeCommandField, Open, p
  <2>2. IsDialog(Commands, [local EXCEPT !.entry.text = text, !.bad = FALSE])
    BY <1>0, <2>1, FieldIsDialog
  <2> QED BY <1>0, <1>4, <2>1, <2>2, TableInput DEF TypeCommandField
<1>5. ASSUME NEW task \in tasks, TemplateAccepted(task) PROVE PageStep
  BY <1>5, TemplateAcceptedStep
<1>6. ASSUME NEW task \in tasks, TemplateRefused(task) PROVE PageStep
  <2>1. conn = "Connected" => Shows(page, local')
    <3>1. CASE Open("commands")
      <4>1. IsDialog(Commands, local) /\ Here(p)
        BY <1>0, <3>1, OnTable DEF Open, p
      <4>2. IsDialog(Commands, [local EXCEPT !.bad = TRUE])
        BY <1>0, <4>1, TypedIsDialog
      <4>3. IsDialog(Commands, local')
        BY <1>6, <4>1, <4>2 DEF TemplateRefused
      <4> QED BY <1>0, <4>1, <4>3, OnTable
    <3>2. CASE ~Open("commands")
      BY <1>6, <3>2, SameShown DEF TemplateRefused
    <3> QED BY <3>1, <3>2
  <2>2. TasksOK'
    BY <1>6 DEF TemplateRefused, Inv, TasksOK
  <2> QED BY <1>6, <2>1, <2>2, SameStatus, StaysOnPage DEF TemplateRefused, status
<1>7. CASE OpenCommandDialog
  BY <1>0, <1>7, OpenTableDialog DEF OpenCommandDialog, p
<1>8. CASE CloseCommandDialog
  BY <1>0, <1>8, OnTable, ClosedIsDialog, CloseDialogStep DEF CloseCommandDialog, p
<1>9. CASE SubmitCommand
  <2> DEFINE task == [does |-> "testTemplate", dialog |-> local, base |-> copies[Commands],
                      mount |-> Mount, n |-> budget["edit"]]
  <2>1. Here(p) /\ local.kind # "closed" /\ local.id # ""
    BY <1>9 DEF SubmitCommand, Open, Valid, p
  <2>2. IsTask(task)
    BY <1>0, <2>1, OnTable DEF IsTask
  <2>3. tasks' = tasks \union {task}
    BY <1>9 DEF SubmitCommand
  <2> HIDE DEF task
  <2>4. TasksOK'
    BY <2>2, <2>3 DEF Inv, TasksOK
  <2> QED BY <1>9, <2>4, SameShown, SameStatus, StaysOnPage DEF SubmitCommand, status, view
<1> QED BY <1>1, <1>2, <1>3, <1>4, <1>5, <1>6, <1>7, <1>8, <1>9 DEF CommandsNext

LEMMA TimersStep ==
  ASSUME Inv, TimersNext
  PROVE  PageStep
<1> DEFINE p == "timers"
<1>0. p \in DOMAIN TableOf /\ TableOf[p] = Timers /\ Timers \in Tables
      /\ Timers \in {Commands, Timers} /\ Timers \in Modules
  BY TablesOf, TablePages, TheKeys
<1> HIDE DEF p
<1>1. ASSUME NEW id \in Typed, ToggleTimer(id) PROVE PageStep
  BY <1>0, <1>1, RowStep DEF ToggleTimer, p
<1>2. ASSUME NEW id \in Typed, DeleteTimer(id) PROVE PageStep
  BY <1>0, <1>2, RowStep DEF DeleteTimer, p
<1>3. ASSUME NEW typed \in Typed, TypeTimerName(typed) PROVE PageStep
  BY <1>0, <1>3, NameTyped DEF TypeTimerName, p
<1>4. ASSUME NEW text \in Texts, TypeTimerField(text) PROVE PageStep
  <2>1. Here(p) /\ IsDialog(Timers, local) /\ local.kind # "closed"
    BY <1>0, <1>4, OnTable DEF TypeTimerField, Open, p
  <2>2. IsDialog(Timers, [local EXCEPT !.entry.text = text])
    BY <1>0, <2>1, FieldIsDialog
  <2> QED BY <1>0, <1>4, <2>1, <2>2, TableInput DEF TypeTimerField
<1>5. CASE OpenTimerDialog
  BY <1>0, <1>5, OpenTableDialog DEF OpenTimerDialog, p
<1>6. CASE CloseTimerDialog
  BY <1>0, <1>6, OnTable, ClosedIsDialog, CloseDialogStep DEF CloseTimerDialog, p
<1>7. CASE SubmitTimer
  <2> DEFINE t == copies[Timers]
             v == IF local.kind = "new" THEN With(t, local.id, [local.entry EXCEPT !.on = TRUE])
                  ELSE Renamed(t, local.old, local.id, local.entry)
             r == Put(Timers, v, t)
  <2>1. Here(p) /\ local.kind # "closed" /\ local.id # "" /\ t # null
    BY <1>7 DEF SubmitTimer, Open, Valid, p
  <2>2. Fits(Timers, t) /\ IsDialog(Timers, local) /\ Shows(page, Closed) /\ OrEmpty(t) = t
    BY <1>0, <2>1, OnTable, ClosedIsDialog DEF OrEmpty, Inv, DataOK
  <2>3. IsRequest(r) /\ r.op = "put"
    <3>1. v \in {With(OrEmpty(t), local.id, [local.entry EXCEPT !.on = TRUE]),
                 Renamed(t, local.old, local.id, local.entry)}
      BY <2>2
    <3> HIDE DEF t, v
    <3> QED BY <1>0, <2>1, <2>2, <3>1, DialogSaves
  <2>4. Asks(<<r>>)
    <3>1. Send(<<r>>)
      BY <1>7 DEF SubmitTimer
    <3> HIDE DEF r
    <3> QED BY <2>3, <3>1, OneHeld DEF Asks
  <2> HIDE DEF r
  <2>5. StatusFits(ToSet(<<r>>))
    BY <1>0, <1>7, TablePages, DialogGone DEF SubmitTimer
  <2> QED BY <1>7, <2>2, <2>4, <2>5 DEF PageStep, SubmitTimer, Inv, TasksOK
<1> QED BY <1>1, <1>2, <1>3, <1>4, <1>5, <1>6, <1>7 DEF TimersNext

LEMMA MoreCollected ==
  ASSUME NEW e \in EntryOf(Goals), NEW n \in Nat
  PROVE  [e EXCEPT !.extra = n] \in EntryOf(Goals)
BY DEF EntryOf, Goals

LEMMA GoalContributedStep ==
  ASSUME Inv, NEW id \in Typed, GoalContributed(id)
  PROVE  ElsewhereStep
<1> DEFINE t == db[Goals]
           e == [t[id] EXCEPT !.extra = t[id].extra + 1]
           v == [t EXCEPT ![id] = e]
<1>1. Goals \in Tables /\ Goals \in Stored /\ Fits(Goals, t)
  BY TablesOf, TablePages, TheKeys DEF Inv, DataOK
<1>2. IsTable(Goals, t) /\ id \in DOMAIN t
  BY <1>1, TableOrEmpty DEF GoalContributed
<1>3. e \in EntryOf(Goals)
  <2> DEFINE old == t[id]
  <2>1. old \in EntryOf(Goals)
    BY <1>2 DEF IsTable
  <2> HIDE DEF old
  <2>2. old.extra + 1 \in Nat
    <3>1. old \in [on : BOOLEAN, text : Texts \union {""}, extra : Nat]
      BY <2>1 DEF EntryOf, Goals
    <3>2. old.extra \in Nat
      BY <3>1
    <3> QED BY <3>2
  <2>3. [old EXCEPT !.extra = old.extra + 1] \in EntryOf(Goals)
    BY <2>1, <2>2, MoreCollected
  <2>4. e = [old EXCEPT !.extra = old.extra + 1]
    BY DEF old
  <2> QED BY <2>3, <2>4, Zenon
<1>4. WrittenElsewhere(Goals, v)
  BY DEF GoalContributed
<1> HIDE DEF e
<1>5. IsTable(Goals, v)
  BY <1>2, <1>3 DEF IsTable
<1> HIDE DEF v
<1>6. Goals \notin Disabling
  BY DEF Goals, Disabling
<1> QED BY <1>1, <1>4, <1>5, <1>6, TableIsThere DEF ElsewhereStep

LEMMA WrittenEntry ==
  ASSUME NEW k, k # Goals, NEW text \in Texts
  PROVE  [Blank("") EXCEPT !.text = text] \in EntryOf(k)
BY DEF Blank, EntryOf, Goals

LEMMA EntryWrittenStep ==
  ASSUME Inv, NEW k \in Tables, NEW id \in Typed, EntryWritten(k, id)
  PROVE  ElsewhereStep
<1> DEFINE text == CHOOSE t \in Texts : TRUE
           e == [Blank("") EXCEPT !.text = text]
           v == With(OrEmpty(db[k]), id, e)
<1>1. k \in Stored /\ Fits(k, db[k]) /\ k # Goals
  BY TablesKept, TheKeys DEF Inv, DataOK, EntryWritten
<1>2. text \in Texts
  BY EntryAssumption
<1> HIDE DEF text
<1>3. e \in EntryOf(k)
  BY <1>1, <1>2, WrittenEntry
<1>4. WrittenElsewhere(k, v)
  BY DEF EntryWritten, text
<1> HIDE DEF e
<1>5. IsTable(k, v)
  BY <1>1, <1>3, WithIsEdit
<1> HIDE DEF v
<1>6. k \notin Disabling
  BY DEF Tables, Disabling
<1> QED BY <1>4, <1>5, <1>6, TableIsThere DEF ElsewhereStep

LEMMA EntryStep ==
  ASSUME Inv, EntryNext
  PROVE  PageStep \/ ElsewhereStep
BY RewardsStep, GoalsStep, CommandsStep, TimersStep, GoalContributedStep, EntryWrittenStep
   DEF EntryNext

-----------------------------------------------------------------------------
(* The queue and the balances.                                             *)

LEMMA OnUsers ==
  ASSUME Inv, Here("users")
  PROVE  /\ IsUsersView(local) /\ page = "users" /\ conn = "Connected"
         /\ \A d : Shows(page, d) <=> IsUsersView(d)
<1>1. page = "users" /\ conn = "Connected"
  BY DEF Here
<1>2. \A d : Shows("users", d) <=> IsUsersView(d)
  BY DEF Shows, TableOf
<1> QED BY <1>1, <1>2 DEF Inv, PageOK

LEMMA OnQueue ==
  ASSUME Inv, Here("queue")
  PROVE  /\ IsQueueView(local) /\ page = "queue" /\ conn = "Connected"
         /\ \A d : Shows(page, d) <=> IsQueueView(d)
<1>1. page = "queue" /\ conn = "Connected"
  BY DEF Here
<1>2. \A d : Shows("queue", d) <=> IsQueueView(d)
  BY DEF Shows, TableOf
<1> QED BY <1>1, <1>2 DEF Inv, PageOK

LEMMA QueueInput ==
  ASSUME Inv, Here("queue"), NEW t, IsPaging(t),
         NEW d, d = [local EXCEPT !.table = t], Input(d) \/ Turned(d)
  PROVE  PageStep
<1>1. IsQueueView(d)
  BY OnQueue DEF IsQueueView
<1> QED BY <1>1, OnQueue, TurnedStep

\* What a click in a table changes is how it is paged.
LEMMA Paged ==
  ASSUME NEW p, NEW rows, TableClick(p, rows), "table" \in DOMAIN local, IsPaging(local.table)
  PROVE  \E t : IsPaging(t) /\ Input([local EXCEPT !.table = t])
<1> DEFINE T == local.table
<1>1. \A v : /\ [local EXCEPT !.table.page = v] = [local EXCEPT !.table = [T EXCEPT !.page = v]]
             /\ [local EXCEPT !.table.per = v] = [local EXCEPT !.table = [T EXCEPT !.per = v]]
             /\ [local EXCEPT !.table.order = v] = [local EXCEPT !.table = [T EXCEPT !.order = v]]
  OBVIOUS
<1>2. /\ \A v : IsPaging([T EXCEPT !.page = v]) /\ IsPaging([T EXCEPT !.order = v])
      /\ \A v \in PageSizes : IsPaging([T EXCEPT !.per = v])
  BY DEF IsPaging, Table
<1>3. \/ \E v : Input([local EXCEPT !.table.page = v]) \/ Input([local EXCEPT !.table.order = v])
      \/ \E v \in PageSizes : Input([local EXCEPT !.table.per = v])
  BY DEF TableClick
<1> QED BY <1>1, <1>2, <1>3

LEMMA UsersInput ==
  ASSUME Inv, Here("users"), NEW d, IsUsersView(d), Input(d) \/ Turned(d)
  PROVE  PageStep
BY OnUsers, TurnedStep

LEMMA PointsAsk ==
  ASSUME Inv, NEW u \in Users, NEW n \in Int \union {NaN}
  PROVE  /\ IsSeq(Relative(u, n))
         /\ \A r \in ToSet(Relative(u, n)) : IsRequest(r) /\ r.op = "points"
<1>1. CASE copies["points"] = null
  BY <1>1, NoneHeld DEF Relative
<1>2. CASE copies["points"] # null
  <2> DEFINE v == IF n = NaN THEN 0 ELSE copies["points"][u] + n
             r == PutPoints(u, v)
  <2>1. v \in Int
    BY <1>2 DEF Inv, TypeOK
  <2> HIDE DEF v
  <2>2. IsRequest(r) /\ r.op = "points"
    BY <2>1 DEF PutPoints, IsRequest
  <2>3. Relative(u, n) = <<r>>
    BY <1>2 DEF Relative, v
  <2> HIDE DEF r
  <2> QED BY <2>2, <2>3, OneHeld
<1> QED BY <1>1, <1>2

LEMMA RemovalAsks ==
  ASSUME NEW r
  PROVE  /\ IsSeq(<<RemoveRedeem(r)>>)
         /\ \A q \in ToSet(<<RemoveRedeem(r)>>) : IsRequest(q) /\ q.op = "remove"
<1>1. IsRequest(RemoveRedeem(r)) /\ RemoveRedeem(r).op = "remove"
  BY DEF RemoveRedeem, IsRequest
<1> QED BY <1>1, OneHeld

\* With no copy of the balances nobody is listed.
LEMMA NobodyShown ==
  ASSUME copies["points"] = null
  PROVE  UsersShown = {}
BY DEF UsersShown, Shown, UserRows

LEMMA PointsStep ==
  ASSUME Inv, PointsNext
  PROVE  PageStep \/ ManagerRemoves \/ \E r \in Redeems : ViewerRedeems(r)
<1>1. ASSUME NEW r \in Redeems, AcceptRedeem(r) PROVE PageStep
  <2>1. Asks(<<RemoveRedeem(r)>>)
    BY <1>1, RemovalAsks DEF AcceptRedeem, Asks
  <2> QED BY <1>1, <2>1, SentStep, SameShown DEF AcceptRedeem, view, Inv, TasksOK
<1>2. ASSUME NEW r \in Redeems, RefundRedeem(r) PROVE PageStep
  <2> DEFINE s == Relative(UserOf[r], Price[r])
             t == <<RemoveRedeem(r)>>
  <2>1. UserOf[r] \in Users /\ Price[r] \in Int \union {NaN}
    BY PointsAssumption
  <2>2. IsSeq(s) /\ \A q \in ToSet(s) : IsRequest(q) /\ q.op = "points"
    BY <2>1, PointsAsk
  <2>3. IsSeq(t) /\ \A q \in ToSet(t) : IsRequest(q) /\ q.op = "remove"
    BY RemovalAsks
  <2>4. Send(s \o t)
    BY <1>2 DEF RefundRedeem
  <2> HIDE DEF s, t
  <2>5. Asks(s \o t)
    BY <2>2, <2>3, <2>4, BothHeld DEF Asks
  <2> QED BY <1>2, <2>5, SentStep, SameShown DEF RefundRedeem, view, Inv, TasksOK
<1>3. ASSUME NEW u \in Users, OpenBalance(u) PROVE PageStep
  <2>1. Here("users") /\ copies["points"][u] \in Int
    BY <1>3, NobodyShown DEF OpenBalance, Free, Inv, TypeOK
  <2>2. IsUsersView([local EXCEPT !.kind = "modify", !.user = u, !.points = copies["points"][u]])
    BY <2>1, OnUsers DEF IsUsersView, UsersLocal
  <2> QED BY <1>3, <2>1, <2>2, UsersInput DEF OpenBalance
<1>4. ASSUME NEW u \in Users, TypeUser(u) PROVE PageStep
  <2>1. Here("users") /\ local.kind = "give"
    BY <1>4 DEF TypeUser, Open
  <2>2. IsUsersView([local EXCEPT !.user = u])
    BY <2>1, OnUsers DEF IsUsersView, UsersLocal
  <2> QED BY <1>4, <2>1, <2>2, UsersInput DEF TypeUser
<1>5. ASSUME NEW n \in Amounts \union {NaN}, TypePoints(n) PROVE PageStep
  <2>1. Here("users") /\ n \in Int \union {NaN}
    BY <1>5, PointsAssumption DEF TypePoints, Open
  <2>2. IsUsersView([local EXCEPT !.points = n])
    BY <2>1, OnUsers DEF IsUsersView, UsersLocal
  <2> QED BY <1>5, <2>1, <2>2, UsersInput DEF TypePoints
<1>6. CASE OpenGivePoints
  <2>1. Here("users")
    BY <1>6 DEF OpenGivePoints, Free
  <2>2. IsUsersView([local EXCEPT !.kind = "give", !.user = null, !.points = 0])
    BY <2>1, OnUsers DEF IsUsersView, UsersLocal
  <2> QED BY <1>6, <2>1, <2>2, UsersInput DEF OpenGivePoints
<1>7. ASSUME Here("users") PROVE IsUsersView([local EXCEPT !.kind = "closed"])
  BY <1>7, OnUsers DEF IsUsersView, UsersLocal
<1>8. CASE SubmitGivePoints
  <2> DEFINE s == Relative(local.user, local.points)
  <2>1. Here("users") /\ local.user \in Users /\ local.points \in Int \union {NaN}
    BY <1>8, OnUsers DEF SubmitGivePoints, Open, IsUsersView
  <2>2. IsSeq(s) /\ \A q \in ToSet(s) : IsRequest(q) /\ q.op = "points"
    BY <2>1, PointsAsk
  <2>3. Asks(s)
    BY <1>8, <2>2 DEF SubmitGivePoints, Asks
  <2>4. Shows(page, local')
    BY <1>7, <1>8, <2>1, OnUsers DEF SubmitGivePoints
  <2> HIDE DEF s
  <2> QED BY <1>8, <2>3, <2>4, SentStep DEF SubmitGivePoints, Inv, TasksOK
<1>9. CASE SubmitBalance
  <2> DEFINE n == IF local.points = NaN THEN 0 ELSE local.points
             r == PutPoints(local.user, n)
  <2>1. Here("users") /\ local.user \in Users /\ n \in Int
    BY <1>9, OnUsers DEF SubmitBalance, Open, IsUsersView
  <2>2. Send(<<r>>)
    BY <1>9 DEF SubmitBalance
  <2> HIDE DEF n
  <2>3. IsRequest(r) /\ r.op = "points"
    BY <2>1 DEF PutPoints, IsRequest
  <2> HIDE DEF r
  <2>4. Asks(<<r>>)
    BY <2>2, <2>3, OneHeld DEF Asks
  <2>5. Shows(page, local')
    BY <1>7, <1>9, <2>1, OnUsers DEF SubmitBalance
  <2> QED BY <1>9, <2>4, <2>5, SentStep DEF SubmitBalance, Inv, TasksOK
<1>10. CASE ClosePointsDialog
  <2>1. Here("users")
    BY <1>10 DEF ClosePointsDialog, Open
  <2> QED BY <1>7, <1>10, <2>1, UsersInput DEF ClosePointsDialog
<1>11. CASE QueueTableClick
  <2>1. Here("queue") /\ TableClick("queue", QueueRows)
    BY <1>11 DEF QueueTableClick, TableClick, Free
  <2>2. "table" \in DOMAIN local /\ IsPaging(local.table)
    BY <2>1, OnQueue DEF IsQueueView, QueueLocal
  <2>3. \E t : IsPaging(t) /\ Input([local EXCEPT !.table = t])
    BY <2>1, <2>2, Paged
  <2> QED BY <2>1, <2>3, QueueInput
<1>12. CASE UsersTableClick
  <2>1. Here("users") /\ TableClick("users", UserRows)
    BY <1>12 DEF UsersTableClick, TableClick, Free
  <2>2. "table" \in DOMAIN local /\ IsPaging(local.table)
    BY <2>1, OnUsers DEF IsUsersView, UsersLocal
  <2>3. PICK t : IsPaging(t) /\ Input([local EXCEPT !.table = t])
    BY <2>1, <2>2, Paged
  <2>4. IsUsersView([local EXCEPT !.table = t])
    BY <2>1, <2>3, OnUsers DEF IsUsersView, UsersLocal
  <2> QED BY <2>1, <2>3, <2>4, UsersInput
<1> QED BY <1>1, <1>2, <1>3, <1>4, <1>5, <1>6, <1>8, <1>9, <1>10, <1>11, <1>12 DEF PointsNext

-----------------------------------------------------------------------------
(* The settings and the setup.                                             *)

Other == {"home", "setup", "alerts", "loyalty", "server", "twitch", "ui"}

LEMMA OtherShows ==
  ASSUME page \in Other
  PROVE  \A d : Shows(page, d)
BY ShowsOther, OtherPages DEF Other

LEMMA OtherInput ==
  ASSUME Inv, NEW p \in Other, Here(p), NEW d, Input(d) \/ Turned(d)
  PROVE  PageStep
BY OtherShows, TurnedStep DEF Here

\* Configurations that are no table and not the one of the setup.
LEMMA PlainClicked ==
  ASSUME Inv, NEW p \in Other, Here(p), NEW k \in Plainly, NEW v, NEW d, Clicked(k, v, d),
         k \in Disabling => p \in DOMAIN Main /\ Main[p] = k
  PROVE  PageStep
<1>1. Fits(k, v) /\ k \in Modules /\ k \notin Tables
  BY PlainFits DEF Plainly
<1>2. page = p /\ Shows(page, d)
  BY OtherShows DEF Here
<1> QED BY <1>1, <1>2, ClickedStep

LEMMA UiKeys == Ui \in Modules /\ Ui \in Keys /\ Ui \notin Tables \union Disabling /\ Ui # "points"
BY DEF Ui, Modules, Keys, Tables, Disabling

LEMMA UiStep ==
  ASSUME Inv
  PROVE  StepOf(copies[Ui]) \in Steps
BY NoStep, UiKeys DEF Inv, DataOK, Fits

LEMMA UiClicked ==
  ASSUME Inv, NEW p \in Other, Here(p), NEW v, StepOf(v) \in Steps, NEW d, Clicked(Ui, v, d)
  PROVE  PageStep
<1>1. Fits(Ui, v)
  BY UiKeys DEF Fits, Queue, Ui
<1>2. Shows(page, d)
  BY OtherShows DEF Here
<1> QED BY <1>1, <1>2, UiKeys, ClickedStep

LEMMA SetUiStep ==
  ASSUME Inv, NEW p \in Other, Here(p), NEW f, NEW v, f = "step" => v \in Steps, SetUi(f, v)
  PROVE  PageStep
<1>1. StepOf(Spread(copies[Ui], f, v)) \in Steps
  BY StepAfter, UiStep, NoStep
<1> QED BY <1>1, UiClicked DEF SetUi

LEMMA PlainDraft ==
  ASSUME NEW k \in Plainly, NEW v, Changes(k, v)
  PROVE  DraftStep
BY DEF DraftStep, Plainly

LEMMA FormKeys ==
  /\ Alerts \in Plainly \ Disabling /\ Twitch \in Plainly \ Disabling
  /\ Bot \in Plainly \ Disabling /\ Loyalty \in Plainly /\ Http \in Plainly
  /\ Main["loyalty"] = Loyalty /\ Main["server"] = Http
  /\ "loyalty" \in DOMAIN Main /\ "server" \in DOMAIN Main
BY DEF Alerts, Twitch, Bot, Loyalty, Http, Plainly, Modules, Tables, Ui, Queue, Disabling,
       Main

\* Two configurations are saved by one click, none of which disables fields.
LEMMA TwoSaved ==
  ASSUME Inv, NEW k \in Modules \ (Tables \union Disabling),
         NEW l \in Modules \ (Tables \union Disabling),
         NEW v, Fits(k, v), NEW w, Fits(l, w), NEW b, NEW c,
         Send(<<Put(k, v, b), Put(l, w, c)>>),
         save' = [save EXCEPT ![k] = "pending", ![l] = "pending"],
         UNCHANGED <<hub, down, conn, copy, load, page, hooks>>,
         conn = "Connected" => Shows(page, local'), TasksOK'
  PROVE  PageStep
<1> DEFINE r == Put(k, v, b)
           q == Put(l, w, c)
<1>1. IsRequest(r) /\ r.op = "put" /\ IsRequest(q) /\ q.op = "put"
  BY PutSaves DEF Put
<1> HIDE DEF r, q
<1>2. Send(<<r, q>>)
  BY DEF r, q
<1>3. Asks(<<r, q>>)
  BY <1>1, <1>2, TwoHeld DEF Asks
<1>4. Disabling \subseteq Modules
  BY DEF Disabling, Modules
<1>5. StatusFits(ToSet(<<r, q>>))
  BY <1>4 DEF StatusFits, Inv, TypeOK, Statuses
<1> QED BY <1>3, <1>5 DEF PageStep, TasksOK

\* The answer of a call that a page waits for.
LEMMA CallEnds ==
  ASSUME Inv, NEW task \in tasks, NEW what \in {"userInfo", "testKeys", "checkKeys"},
         Ends(task, what), NEW d, local' = IF Mounted(task) THEN d ELSE local
  PROVE  TasksOK' /\ (conn = "Connected" => Shows(page, local'))
<1>1. TasksOK' /\ IsTask(task)
  BY DEF Ends, Inv, TasksOK
<1>2. CASE Mounted(task)
  <2>1. page \in Other
    BY <1>1, <1>2 DEF Ends, IsTask, Mounted, Here, Other
  <2> QED BY <1>1, <2>1, OtherShows
<1>3. CASE ~Mounted(task)
  BY <1>1, <1>3, SameShown
<1> QED BY <1>2, <1>3

LEMMA DraftTyped ==
  ASSUME Inv, NEW text
  PROVE  /\ \A s : TickAlert(s) \/ TypeAlert(s, text) => DraftStep
         /\ TypeLoyalty(text) \/ TypeCredentials(text) \/ TypeBot(text) => DraftStep
         /\ \A f : TypeServer(f, text) => DraftStep
         /\ TickBot \/ TypeSetupKeys(text) => DraftStep
BY FormKeys, PlainDraft DEF TickAlert, TypeAlert, SetAlert, TypeLoyalty, TypeCredentials, TypeBot,
   TypeServer, TickBot, TypeSetupKeys

LEMMA SettingsClicked ==
  ASSUME Inv, \/ SubmitAlerts \/ SwitchLoyalty \/ SubmitLoyalty \/ SubmitServer
              \/ ConfirmInsecure \/ GoBack
  PROVE  PageStep
<1>2. "alerts" \in Other /\ "loyalty" \in Other /\ "server" \in Other
  BY DEF Other
<1>3. CASE SubmitAlerts
  BY <1>2, <1>3, FormKeys, PlainClicked DEF SubmitAlerts, Submits
<1>4. CASE SwitchLoyalty
  BY <1>2, <1>4, FormKeys, PlainClicked DEF SwitchLoyalty
<1>5. CASE SubmitLoyalty
  BY <1>2, <1>5, FormKeys, PlainClicked DEF SubmitLoyalty, Submits
<1>6. CASE SubmitServer
  <2>1. Here("server")
    BY <1>6 DEF SubmitServer, Free
  <2>2. CASE Submits(Http)
    BY <1>2, <2>1, <2>2, FormKeys, PlainClicked DEF Submits
  <2>3. ASSUME NEW d, Turned(d) PROVE PageStep
    BY <1>2, <2>1, <2>3, OtherInput
  <2> QED BY <1>6, <2>2, <2>3 DEF SubmitServer
<1>7. CASE ConfirmInsecure
  BY <1>2, <1>7, FormKeys, PlainClicked DEF ConfirmInsecure, Open
<1>8. CASE GoBack
  BY <1>2, <1>8, OtherInput DEF GoBack, Open
<1> QED BY <1>3, <1>4, <1>5, <1>6, <1>7, <1>8

LEMMA TwitchClicked ==
  ASSUME Inv, \/ SwitchTwitch \/ SubmitCredentials \/ TestCredentials \/ SubmitBot
              \/ RepeatOnboarding \/ RevealViewers \/ \E l \in Languages : ChooseLanguage(l)
  PROVE  PageStep
<1>1. "twitch" \in Other /\ "ui" \in Other /\ "home" \in Other
  BY DEF Other
<1>2. CASE SwitchTwitch
  BY <1>1, <1>2, FormKeys, PlainClicked DEF SwitchTwitch
<1>3. CASE SubmitCredentials
  BY <1>1, <1>3, FormKeys, PlainClicked DEF SubmitCredentials, Tab, Submits
<1>4. CASE TestCredentials
  <2>1. page \in Other /\ page = "twitch"
    BY <1>1, <1>4 DEF TestCredentials, Tab, Here
  <2>2. TasksOK'
    <3>1. IsTask(Task("testKeys", page, local))
      BY <2>1, UserInfoIsTask
    <3>2. tasks' = tasks \union {Task("testKeys", page, local)}
      BY <1>4 DEF TestCredentials
    <3> QED BY <3>1, <3>2 DEF Inv, TasksOK
  <2> QED BY <1>4, <2>1, <2>2, OtherShows, SameStatus, StaysOnPage DEF TestCredentials, status
<1>5. CASE SubmitBot
  <2>1. Here("twitch")
    BY <1>5 DEF SubmitBot, Tab
  <2>2. /\ Fits(Twitch, copies[Twitch]) /\ Fits(Bot, copies[Bot])
        /\ {Twitch, Bot} \subseteq Modules \ (Tables \union Disabling)
    BY FormKeys, PlainFits DEF Plainly
  <2> QED BY <1>5, <2>1, <2>2, SameShown, TwoSaved DEF SubmitBot, view, Inv, TasksOK
<1>6. CASE RepeatOnboarding
  <2>1. StepOf(Spread(Spread(copies[Ui], "done", FALSE), "step", 0)) \in Steps
    BY StepAfter, NoStep DEF Landing
  <2> QED BY <1>1, <1>6, <2>1, UiClicked DEF RepeatOnboarding
<1>7. CASE RevealViewers
  <2>1. \A v : StepOf(Spread(copies[Ui], "hide", v)) \in Steps
    BY StepAfter, UiStep, NoStep
  <2>2. StepOf(Flipped(copies[Ui], "hide")) \in Steps
    BY <2>1, Zenon DEF Flipped
  <2> QED BY <1>1, <1>7, <2>2, UiClicked DEF RevealViewers
<1>8. ASSUME NEW l \in Languages, ChooseLanguage(l) PROVE PageStep
  BY <1>1, <1>8, SetUiStep DEF ChooseLanguage
<1> QED BY <1>2, <1>3, <1>4, <1>5, <1>6, <1>7, <1>8

LEMMA CallStep ==
  ASSUME Inv, NEW task \in tasks, KeysTested(task) \/ UserInfoAnswered(task) \/ KeysRefused(task)
  PROVE  PageStep
<1>1. TasksOK' /\ (conn = "Connected" => Shows(page, local'))
  <2>1. CASE KeysTested(task)
    BY <2>1, CallEnds DEF KeysTested
  <2>2. CASE UserInfoAnswered(task)
    <3>1. PICK user : local' = IF Mounted(task) THEN [local EXCEPT !.user = user] ELSE local
      BY <2>2 DEF UserInfoAnswered
    <3> QED BY <2>2, <3>1, CallEnds DEF UserInfoAnswered
  <2>3. CASE KeysRefused(task)
    BY <2>3, CallEnds DEF KeysRefused, Tested
  <2> QED BY <2>1, <2>2, <2>3
<1> QED BY <1>1, SameStatus, StaysOnPage DEF KeysTested, UserInfoAnswered, KeysRefused, status

LEMMA AuthorizedStep ==
  ASSUME NEW user, Authorized(user)
  PROVE  ElsewhereStep
<1>1. Fits("authKeys", user) /\ "authKeys" \notin Tables \union Disabling
  BY DEF Fits, Ui, Queue, Tables, Disabling
<1> QED BY <1>1 DEF Authorized, ElsewhereStep

LEMMA ConfigWrittenStep ==
  ASSUME NEW p \in DOMAIN Forms, ConfigWritten(p)
  PROVE  ElsewhereStep
<1>1. Forms[p] \in Plainly /\ Forms[p] \in Disabling
  BY DEF Forms, Loyalty, Http, Plainly, Modules, Tables, Ui, Queue, Disabling
<1>2. Fits(Forms[p], Theirs) /\ Forms[p] \notin Tables /\ WrittenElsewhere(Forms[p], Theirs)
  BY <1>1, PlainFits DEF ConfigWritten
<1> QED BY <1>1, <1>2 DEF ElsewhereStep

LEMMA FormNextStep ==
  ASSUME Inv, FormNext
  PROVE  \/ PageStep \/ DraftStep \/ ElsewhereStep \/ AuthKeysPushed \/ StreamChanges
         \/ \E tab \in DOMAIN TabHooks : ShowTab(tab)
BY DraftTyped, SettingsClicked, TwitchClicked, CallStep, AuthorizedStep,
   ConfigWrittenStep DEF FormNext

LEMMA FreshStep ==
  ASSUME Inv, ~RenderDue, NEW step, Step(step)
  PROVE  step = StepOf(copies[Ui]) /\ page = "setup" /\ "setup" \in Other
BY DEF RenderDue, Stale, Step, Here, Other

LEMMA SetupClicked ==
  ASSUME Inv, ~RenderDue,
         \/ SkipSetup \/ Welcome \/ FinishSetup \/ SubmitSetupKeys \/ SkipTwitch
         \/ \E l \in Languages : SetupLanguage(l)
         \/ \E step \in Steps : BackTo(step)
  PROVE  PageStep
<1>1. "setup" \in Other
  BY DEF Other
<1>2. CASE SkipSetup \/ FinishSetup \/ \E l \in Languages : SetupLanguage(l)
  BY <1>1, <1>2, SetUiStep DEF SkipSetup, FinishSetup, SetupLanguage, Step
<1>3. CASE Welcome
  <2>1. StepOf(copies[Ui]) + 1 \in Steps
    BY <1>3, FreshStep DEF Welcome, Landing, Steps, TwitchIntegration
  <2> QED BY <1>1, <1>3, <2>1, SetUiStep DEF Welcome, Step
<1>4. CASE SubmitSetupKeys
  BY <1>1, <1>4, FormKeys, PlainClicked DEF SubmitSetupKeys, Step, Submits
<1>5. CASE SkipTwitch
  BY <1>1, <1>5, SetUiStep DEF SkipTwitch, Step, Steps
<1>6. ASSUME NEW step \in Steps, BackTo(step) PROVE PageStep
  BY <1>1, <1>6, SetUiStep DEF BackTo
<1> QED BY <1>2, <1>3, <1>4, <1>5, <1>6

LEMMA KeysAcceptedStep ==
  ASSUME Inv, NEW task \in tasks, KeysAccepted(task)
  PROVE  PageStep
<1> DEFINE v == Spread(task.twitch, "on", TRUE)
           w == Spread(task.ui, "step", StepOf(task.ui) + 1)
<1>1. TasksOK' /\ (conn = "Connected" => Shows(page, local'))
  BY CallEnds DEF KeysAccepted, Tested
<1>2. StepOf(task.ui) = TwitchIntegration
  BY DEF KeysAccepted, Ends, Inv, TasksOK, IsTask
<1>3. Fits(Ui, w)
  <2>1. StepOf(task.ui) + 1 \in Steps
    BY <1>2 DEF TwitchIntegration, Steps, TwitchEvents
  <2>2. StepOf(w) \in Steps
    BY <2>1, StepAfter, NoStep
  <2> QED BY <2>2, UiKeys DEF Fits, Queue, Ui
<1>4. /\ Fits(Twitch, v) /\ {Twitch, Ui} \subseteq Modules \ (Tables \union Disabling)
  BY FormKeys, PlainFits, UiKeys DEF Plainly
<1> HIDE DEF v, w
<1>5. /\ Send(<<Put(Twitch, v, task.twitch), Put(Ui, w, task.ui)>>)
      /\ save' = [save EXCEPT ![Twitch] = "pending", ![Ui] = "pending"]
      /\ UNCHANGED <<hub, down, conn, copy, load, page, hooks>>
  BY DEF KeysAccepted, v, w
<1> QED BY <1>1, <1>3, <1>4, <1>5, TwoSaved

LEMMA CheckCredentialsStep ==
  ASSUME Inv, ~RenderDue, CheckCredentials
  PROVE  PageStep
<1> DEFINE task == Continues("checkKeys", null)
<1>1. StepOf(copies[Ui]) = TwitchIntegration /\ page = "setup" /\ page \in Other
  BY FreshStep DEF CheckCredentials
<1>2. IsTask(task)
  BY <1>1 DEF Continues, IsTask
<1>3. tasks' = tasks \union {task}
  BY DEF CheckCredentials
<1> HIDE DEF task
<1>4. TasksOK'
  BY <1>2, <1>3 DEF Inv, TasksOK
<1> QED BY <1>1, <1>4, OtherShows, SameStatus, StaysOnPage DEF CheckCredentials, status

LEMMA FinishStepStep ==
  ASSUME Inv, FinishStep
  PROVE  PageStep
<1> DEFINE v == Spread(copies[Twitch], "bot", TRUE)
           r == PutThen(Twitch, v, copies[Twitch], "setBot")
           task == Continues("setBot", local.user)
<1>1. IsTask(task)
  BY DEF Continues, IsTask
<1>2. tasks' = tasks \union {task}
  BY DEF FinishStep
<1> HIDE DEF task
<1>3. TasksOK'
  BY <1>1, <1>2 DEF Inv, TasksOK
<1>4. Twitch \in Modules \ (Tables \union Disabling) /\ Fits(Twitch, v)
  BY FormKeys, PlainFits DEF Plainly
<1>5. Send(<<r>>)
  BY DEF FinishStep
<1> HIDE DEF v
<1>6. IsRequest(r) /\ r.op = "put"
  BY <1>4, PutSaves
<1> HIDE DEF r
<1>7. Asks(<<r>>)
  BY <1>5, <1>6, OneHeld DEF Asks
<1>8. Disabling \subseteq Modules
  BY DEF Disabling, Modules
<1>9. StatusFits(ToSet(<<r>>))
  BY <1>4, <1>8 DEF StatusFits, FinishStep, Inv, TypeOK, Statuses
<1> QED BY <1>3, <1>7, <1>9, SameShown DEF PageStep, FinishStep, view, TasksOK

LEMMA OnboardingStep ==
  ASSUME Inv, ~RenderDue, OnboardingNext
  PROVE  \/ PageStep \/ DraftStep \/ AuthKeysRead
         \/ \E task \in tasks : BotSaved(task) \/ StepSaved(task)
BY SetupClicked, KeysAcceptedStep, CallStep, CheckCredentialsStep, FinishStepStep, DraftTyped
   DEF OnboardingNext

-----------------------------------------------------------------------------
(* Pages, tabs and steps that come and go.                                 *)

LEMMA MainDisabling ==
  ASSUME NEW p \in DOMAIN Main, Main[p] \in Disabling
  PROVE  p \in {"loyalty", "server"}
BY DEF Main, Disabling, Ui, Twitch

LEMMA MountsAre ==
  ASSUME UNCHANGED <<hub, down, copy>>, conn' = "Connected", page' \in Pages,
         NEW reqs, NEW in, NEW stays, NEW out, NEW read, Mounts(reqs, in),
         stays \subseteq hooks, hooks' = stays \union in, StatusAfter(out, read),
         read \intersect Modules \subseteq in,
         \A p \in DOMAIN Main : Here(p) /\ Main[p] \in Disabling => Main[p] \in out,
         \A p \in DOMAIN Main : page' = p /\ Main[p] \in Disabling => Main[p] \in read,
         PageOK', TasksOK'
  PROVE  MountStep
BY DEF MountStep

LEMMA SwapStep ==
  ASSUME Inv, conn = "Connected", NEW out, NEW in, NEW requests, NEW stays,
         Swap(out, in, requests, stays), UNCHANGED <<hub, down, conn, copy, page>>,
         stays \subseteq hooks, MountRequests(requests), in \subseteq Stored,
         \A k \in in \intersect Keys : Asked(requests, k),
         page \in Other \ {"loyalty", "server"},
         page \in DOMAIN Main => Main[page] \in stays \union in,
         "authKeys" \in stays \union in => page \in {"twitch", "setup"}, TasksOK'
  PROVE  MountStep
<1> DEFINE reqs == Unmounting(out \ stays) \o requests
<1>1. MountRequests(reqs) /\ \A k : Asked(requests, k) => Asked(reqs, k)
  BY UnmountingAsks, MountTogether
<1>2. up' = up \o reqs
  BY DEF Swap, Send
<1> HIDE DEF reqs
<1>3. Mounts(reqs, in)
  BY <1>1, <1>2 DEF Mounts, MountRequests, Asked
<1>4. hooks' = stays \union in /\ StatusAfter(out, in)
  BY DEF Swap
<1>5. /\ \A p \in DOMAIN Main : Here(p) /\ Main[p] \in Disabling => Main[p] \in out
      /\ \A p \in DOMAIN Main : page' = p /\ Main[p] \in Disabling => Main[p] \in in
  BY MainDisabling DEF Here
<1>6. PageOK'
  BY <1>4, OtherShows DEF PageOK
<1>7. page' \in Pages
  BY DEF Inv, TypeOK
<1> QED BY <1>3, <1>4, <1>5, <1>6, <1>7 DEF MountStep

LEMMA StepMounts ==
  ASSUME Inv, RenderStep
  PROVE  MountStep
<1> DEFINE step == StepOf(copies[Ui])
           first == Mounting(StepHooks[step], {Ui})
           second == AuthRequests(step)
           in == ToSet(StepHooks[step]) \union AuthKeys(step)
<1>1. step \in Steps /\ conn = "Connected" /\ page = "setup"
  BY UiStep DEF RenderStep, Here
<1>2. MountRequests(first) /\ \A k \in ToSet(StepHooks[step]) : Asked(first, k)
  BY <1>1, StepHooksList, MountingAsks
<1>3. MountRequests(second)
  BY AuthRequestsAsk
<1>4. MountRequests(first \o second) /\ \A k : Asked(first, k) => Asked(first \o second, k)
  BY <1>2, <1>3, MountTogether
<1>5. /\ in \subseteq Stored
      /\ \A k \in in \intersect Keys : Asked(first \o second, k)
  BY <1>1, <1>2, <1>4, StepHooksList, TheKeys DEF AuthKeys
<1>6. {Ui} \subseteq hooks /\ Main[page] = Ui
  BY <1>1 DEF Inv, PageOK, Main
<1>7. TasksOK'
  <2>1. IsTask(Task("userInfo", page, local'))
    BY <1>1, UserInfoIsTask
  <2>2. tasks' \subseteq tasks \union {Task("userInfo", page, local')}
    BY DEF RenderStep
  <2> QED BY <2>1, <2>2 DEF Inv, TasksOK
<1>8. /\ Swap(ToSet(StepHooks[local.step]) \union AuthKeys(local.step), in, first \o second, {Ui})
      /\ UNCHANGED <<hub, down, conn, copy, page>>
  BY DEF RenderStep
<1>9. page \in Other \ {"loyalty", "server"}
  BY <1>1 DEF Other
<1> HIDE DEF step, first, second, in
<1> QED BY <1>1, <1>4, <1>5, <1>6, <1>7, <1>8, <1>9, SwapStep

LEMMA TabMounts ==
  ASSUME Inv, NEW tab \in DOMAIN TabHooks, ShowTab(tab)
  PROVE  MountStep
<1> DEFINE reqs == IF tab = "events" THEN <<Sub("authKeys")>> ELSE Mounting(TabHooks[tab], {Twitch})
           in == ToSet(TabHooks[tab])
           out == ToSet(TabHooks[local.tab])
<1>1. page = "twitch" /\ conn = "Connected"
  BY DEF ShowTab, Tab, Here
<1>2. /\ MountRequests(reqs) /\ in \subseteq Stored
      /\ \A k \in in \intersect Keys : Asked(reqs, k)
  <2>1. CASE tab = "events"
    <3>1. IsRequest(Sub("authKeys")) /\ Sub("authKeys").op = "sub" /\ Sub("authKeys").key # "points"
      BY TheKeys DEF Sub, IsRequest
    <3>2. MountRequests(<<Sub("authKeys")>>)
      BY <3>1, MountOne
    <3> QED BY <2>1, <3>2, TabHooksList, TheKeys
  <2>2. CASE tab # "events"
    <3>1. TabHooks[tab] = <<Http, Twitch>> \/ TabHooks[tab] = <<Bot, Twitch>>
      BY <2>2, TabHooksList
    <3>2. HookList(TabHooks[tab]) /\ ToSet(TabHooks[tab]) \subseteq {Http, Bot, Twitch}
      BY <3>1, TwoHooks, TheKeys
    <3>3. MountRequests(reqs) /\ \A k \in ToSet(TabHooks[tab]) : Asked(reqs, k)
      BY <2>2, <3>2, MountingAsks
    <3> QED BY <3>2, <3>3, TheKeys
  <2> QED BY <2>1, <2>2
<1>3. {Twitch} \subseteq hooks /\ Main[page] = Twitch
  BY <1>1 DEF Inv, PageOK, Main
<1>4. TasksOK'
  <2>1. IsTask(Task("userInfo", page, local'))
    BY <1>1, UserInfoIsTask
  <2>2. tasks' \subseteq tasks \union {Task("userInfo", page, local')}
    BY DEF ShowTab
  <2> QED BY <2>1, <2>2 DEF Inv, TasksOK
<1>5. Swap(out, in, reqs, {Twitch}) /\ UNCHANGED <<hub, down, conn, copy, page>>
  BY DEF ShowTab
<1>6. page \in Other \ {"loyalty", "server"}
  BY <1>1 DEF Other
<1> HIDE DEF reqs, in, out
<1> QED BY <1>1, <1>2, <1>3, <1>4, <1>5, <1>6, SwapStep

LEMMA StreamMounts ==
  ASSUME Inv, StreamChanges
  PROVE  MountStep
<1>1. page = "home" /\ conn = "Connected" /\ page \notin DOMAIN Main
  BY DEF StreamChanges, Here, Main
<1>2. TasksOK' /\ UNCHANGED <<hub, down, conn, copy, page>>
  BY DEF StreamChanges, Inv, TasksOK
<1>3. page \in Other \ {"loyalty", "server"}
  BY <1>1 DEF Other
<1>4. CASE Swap({Ui}, {}, <<>>, {})
  BY <1>1, <1>2, <1>3, <1>4, MountNothing, SwapStep
<1>5. CASE Swap({}, {Ui}, Mounting(<<Ui>>, {}), {})
  <2>1. HookList(<<Ui>>) /\ ToSet(<<Ui>>) = {Ui}
    BY UiKeys, OneHook
  <2>2. MountRequests(Mounting(<<Ui>>, {})) /\ Asked(Mounting(<<Ui>>, {}), Ui)
    BY <2>1, MountingAsks
  <2>3. {Ui} \subseteq Stored /\ Ui # "authKeys"
    BY UiKeys, TheKeys
  <2> QED BY <1>1, <1>2, <1>3, <1>5, <2>2, <2>3, SwapStep
<1> QED BY <1>4, <1>5 DEF StreamChanges

LEMMA OpensStep ==
  ASSUME Inv, NEW p \in Pages, NEW out, out = hooks \/ conn = "NotConnected", NEW n,
         Opens(p, out, n), conn' = "Connected"
  PROVE  MountStep
<1> DEFINE old == IF conn = "Connected" THEN up ELSE <<>>
           first == Unmounting(out)
           second == PageRequests(p)
           reqs == first \o second
           read == ToSet(PageHooks(p))
           in == read \union PageAuth(p)
<1>1. MountRequests(first) /\ MountRequests(second) /\ \A k \in read : Asked(second, k)
  BY UnmountingAsks, PageRequestsAsk
<1>2. up' = old \o reqs
  <2>1. IsSeq(old) /\ IsSeq(first) /\ IsSeq(second)
    BY <1>1, NoneHeld DEF MountRequests, Inv, RequestsOK, IsSeq
  <2> DEFINE S == ToSet(old) \union ToSet(first) \union ToSet(second)
  <2>2. old \in Seq(S) /\ first \in Seq(S) /\ second \in Seq(S)
    BY <2>1, SeqMonotonic DEF IsSeq
  <2>3. up' = (old \o first) \o second
    BY DEF Opens
  <2> HIDE DEF old, first, second, S
  <2> QED BY <2>2, <2>3, ConcatAssociative
<1>3. read \subseteq Keys /\ PageAuth(p) \subseteq {"authKeys"} /\ (PageAuth(p) # {} => p = "setup")
  BY PageHooksList DEF PageAuth, AuthKeys
<1>4. MountRequests(reqs) /\ \A k \in in \intersect Keys : Asked(reqs, k)
  <2> HIDE DEF first, second, read
  <2> QED BY <1>1, <1>3, MountTogether, TheKeys
<1>5. Mounts(reqs, in)
  <2> HIDE DEF reqs, read
  <2> QED BY <1>2, <1>3, <1>4, TheKeys DEF Mounts, MountRequests, Asked
<1>6. /\ hooks' = {} \union in /\ StatusAfter(out, read) /\ read \intersect Modules \subseteq in
      /\ UNCHANGED <<hub, down, copy>> /\ page' = p
  BY DEF Opens
<1>7. /\ \A q \in DOMAIN Main : Here(q) /\ Main[q] \in Disabling => Main[q] \in out
      /\ \A q \in DOMAIN Main : page' = q /\ Main[q] \in Disabling => Main[q] \in read
  BY <1>6, PageHooksList DEF Here, Inv, PageOK
<1>8. PageOK'
  <2>1. Shows(p, local')
    BY PageLocalShown DEF Opens
  <2>2. p \in DOMAIN Main => Main[p] \in read
    BY PageHooksList
  <2>3. "authKeys" \in hooks' => p \in {"twitch", "setup"}
    BY <1>3, <1>6, TheKeys
  <2> QED BY <1>6, <2>1, <2>2, <2>3 DEF PageOK
<1>9. TasksOK'
  <2>1. CASE PageAuth(p) = {}
    BY <2>1 DEF Opens, Inv, TasksOK
  <2>2. CASE PageAuth(p) # {}
    <3>1. IsTask(Task("userInfo", p, local'))
      BY <1>3, <2>2, UserInfoIsTask
    <3>2. tasks' = tasks \union {Task("userInfo", p, local')}
      BY <2>2 DEF Opens
    <3> QED BY <3>1, <3>2 DEF Inv, TasksOK
  <2> QED BY <2>1, <2>2
<1> HIDE DEF old, first, second, reqs, in, read
<1>10. PICK stays : stays \subseteq hooks /\ hooks' = stays \union in
  BY <1>6
<1>11. UNCHANGED <<hub, down, copy>> /\ conn' = "Connected" /\ page' \in Pages
  BY <1>6
<1> QED BY <1>5, <1>6, <1>7, <1>8, <1>9, <1>10, <1>11, MountsAre

LEMMA OpensAre ==
  ASSUME Inv, Redirect \/ LeaveSetup \/ Reconnect \/ \E p \in Pages : Navigate(p)
  PROVE  MountStep
<1>1. CASE Redirect
  <2>1. "setup" \in Pages /\ conn' = "Connected"
    BY <1>1 DEF Redirect, RedirectDue
  <2>2. PICK n : Opens("setup", hooks, n)
    BY <1>1 DEF Redirect
  <2> QED BY <2>1, <2>2, OpensStep
<1>2. CASE LeaveSetup
  <2>1. "home" \in Pages /\ conn' = "Connected"
    BY <1>2, StoreAssumption DEF LeaveSetup, LeaveDue, Here
  <2> QED BY <1>2, <2>1, OpensStep DEF LeaveSetup
<1>3. CASE Reconnect
  <2>1. page \in Pages
    BY DEF Inv, TypeOK
  <2> QED BY <1>3, <2>1, OpensStep DEF Reconnect
<1>4. ASSUME NEW p \in Pages, Navigate(p) PROVE MountStep
  <2>1. conn' = "Connected"
    BY <1>4 DEF Navigate
  <2> QED BY <1>4, <2>1, OpensStep DEF Navigate
<1> QED BY <1>1, <1>2, <1>3, <1>4

LEMMA TableDropped ==
  ASSUME Inv, DropTable
  PROVE  PageStep
<1> DEFINE d == [local EXCEPT !.table = Table]
<1>0. IsPaging(Table)
  BY DefaultSize DEF IsPaging
<1>1. CASE Here("queue")
  BY <1>0, <1>1, QueueInput DEF DropTable
<1>2. CASE Here("users")
  <2>1. IsUsersView(d)
    BY <1>0, <1>2, OnUsers DEF IsUsersView, UsersLocal
  <2> QED BY <1>2, <2>1, UsersInput DEF DropTable
<1> QED BY <1>1, <1>2 DEF DropTable, TableGone

\* Every step is of one of these kinds.
Heard ==
  \/ Loaded \/ Pushed \/ SetterAnswered \/ PointsLoaded \/ PointsPushed
  \/ AuthKeysPushed \/ AuthKeysRead
  \/ \E task \in tasks : BotSaved(task) \/ StepSaved(task)
Kinds ==
  \/ Hub \/ ManagerRemoves \/ (\E r \in Redeems : ViewerRedeems(r)) \/ ElsewhereStep
  \/ Heard \/ PageStep \/ DraftStep \/ MountStep \/ Disconnect

LEMMA NextKinds ==
  ASSUME Inv, Next
  PROVE  Kinds
<1>1. CASE Render
  BY <1>1, OpensAre, StepMounts, TableDropped DEF Render, Kinds
<1>2. CASE StoreNext
  BY <1>2 DEF StoreNext, Kinds, Hub, Heard
<1>3. CASE EntryNext
  BY <1>3, EntryStep DEF Kinds
<1>4. CASE PointsNext
  BY <1>4, PointsStep DEF Kinds
<1>5. CASE FormNext
  BY <1>5, FormNextStep, StreamMounts, TabMounts DEF Kinds, Heard
<1>6. CASE ~RenderDue /\ OnboardingNext
  BY <1>6, OnboardingStep DEF Kinds, Heard
<1>7. CASE Reconnect \/ \E p \in Pages : Navigate(p)
  BY <1>7, OpensAre DEF Kinds
<1> QED BY <1>1, <1>2, <1>3, <1>4, <1>5, <1>6, <1>7 DEF Next

LEMMA KindsOK ==
  ASSUME Inv, Kinds
  PROVE  Inv'
<1>1. CASE Hub \/ ManagerRemoves \/ (\E r \in Redeems : ViewerRedeems(r)) \/ ElsewhereStep
  BY <1>1, HubGetOK, HubSubscribeOK, HubPutOK, HubPutPointsOK, HubRemoveOK, ManagerRemovesOK,
     ViewerRedeemsOK, ElsewhereStepOK DEF Hub
<1>2. CASE Heard
  BY <1>2, LoadedOK, PushedOK, SetterAnsweredOK, PointsLoadedOK, PointsPushedOK,
     AuthKeysPushedOK, AuthKeysReadOK, BotSavedOK, StepSavedOK DEF Heard
<1>3. CASE PageStep \/ DraftStep \/ MountStep \/ Disconnect
  BY <1>3, PageStepOK, DraftStepOK, MountStepOK, DisconnectOK
<1> QED BY <1>1, <1>2, <1>3 DEF Kinds

LEMMA InitOK ==
  ASSUME Init
  PROVE  Inv
<1>1. RequestsOK /\ MessagesOK
  BY NoneHeld DEF Init, RequestsOK, MessagesOK, IsSeq
<1>2. /\ DOMAIN db = Stored /\ db["points"] \in [Users -> Int]
      /\ StepOf(db[Ui]) \in Steps
      /\ Listed(db[Queue]) \subseteq Redeems
      /\ \A k \in Tables : db[k] = absent \/ IsTable(k, db[k])
  BY StoreAssumption, EntryAssumption, PointsAssumption, SetupAssumption DEF Init, Ui, Queue
<1>3. \A k \in Stored : Fits(k, db[k])
  BY <1>2 DEF Fits, Queue
<1>4. /\ DOMAIN copies = Keys
      /\ \A k \in Keys : copies[k] = null \/ (k = Ui /\ copies[k] = db[k])
  BY DEF Init, Ui
<1>5. DataOK
  <2>1. \A k \in Keys : copies[k] = null \/ Fits(k, copies[k])
    BY <1>3, <1>4, TheKeys
  <2>2. \A k \in Tables : copies[k] # absent
    <3>1. null # absent
      BY StoreAssumption
    <3>2. \A k \in Tables : k \in Keys /\ k # Ui
      BY UiKeys, TablesKept, TheKeys
    <3> QED BY <1>4, <3>1, <3>2
  <2> QED BY <1>3, <2>1, <2>2 DEF DataOK
<1>6. LinkOK /\ PageOK /\ TasksOK
  BY DEF Init, LinkOK, PageOK, TasksOK
<1>7. TypeOK
  <2>1. copies["points"] \in [Users -> Int] \union {null}
    BY <1>4, UiKeys, TheKeys
  <2>2. load \in [Modules -> Statuses] /\ save \in [Modules -> Statuses]
    BY DEF Init, Statuses
  <2>3. page \in Pages
    BY StoreAssumption DEF Init
  <2> QED BY <1>1, <1>2, <1>4, <2>1, <2>2, <2>3, WireTypes
          DEF Init, TypeOK, RequestsOK, MessagesOK
<1> QED BY <1>1, <1>5, <1>6, <1>7 DEF Inv

-----------------------------------------------------------------------------
(* The pages of a table.                                                   *)

\* Every row has a place of its own in the order of the column.
Ahead(rows, column, tie, r) ==
  {s \in rows : \/ column[s] < column[r]
                \/ column[s] = column[r] /\ tie[s] <= tie[r]}

LEMMA PlacesDiffer ==
  ASSUME NEW rows, IsFiniteSet(rows), NEW column \in [rows -> Int], NEW tie \in [rows -> Int],
         \A r, s \in rows : tie[r] = tie[s] => r = s,
         NEW r \in rows, NEW s \in rows, r # s, s \in Ahead(rows, column, tie, r)
  PROVE  Cardinality(Ahead(rows, column, tie, s)) < Cardinality(Ahead(rows, column, tie, r))
<1> DEFINE S == Ahead(rows, column, tie, s)
           R == Ahead(rows, column, tie, r)
<1>1. S \subseteq R
  BY DEF Ahead
<1>2. r \in R /\ r \notin S
  BY DEF Ahead
<1>3. IsFiniteSet(R)
  BY FS_Subset DEF Ahead
<1> HIDE DEF S, R
<1>4. IsFiniteSet(S) /\ Cardinality(S) <= Cardinality(R) /\ Cardinality(S) # Cardinality(R)
  BY <1>1, <1>2, <1>3, FS_Subset
<1>5. Cardinality(S) \in Nat /\ Cardinality(R) \in Nat
  BY <1>3, <1>4, FS_CardinalityType
<1> QED BY <1>4, <1>5 DEF S, R

LEMMA Ordered ==
  ASSUME NEW rows, IsFiniteSet(rows), NEW column \in [rows -> Int]
  PROVE  \E place \in Bijection(rows, 1 .. Cardinality(rows)) :
           \A r, s \in rows : place[r] < place[s] => column[r] <= column[s]
<1> DEFINE n == Cardinality(rows)
<1>1. n \in Nat /\ ExistsBijection(1 .. n, rows)
  BY FS_CardinalityType
<1>2. PICK tie \in Bijection(rows, 1 .. n) : TRUE
  <2>1. ExistsBijection(rows, 1 .. n)
    BY <1>1, Fun_ExistsBijSymmetric
  <2> QED BY <2>1 DEF ExistsBijection
<1>3. tie \in [rows -> Int] /\ \A r, s \in rows : tie[r] = tie[s] => r = s
  BY <1>1, <1>2 DEF Bijection, Injection, IsInjective
<1> DEFINE A(r) == Ahead(rows, column, tie, r)
           place == [r \in rows |-> Cardinality(A(r))]
<1>4. \A r \in rows : IsFiniteSet(A(r)) /\ r \in A(r) /\ A(r) \subseteq rows
  BY <1>3, FS_Subset DEF Ahead
<1>5. \A r \in rows : place[r] \in 1 .. n
  <2> TAKE r \in rows
  <2>1. Cardinality(A(r)) <= n /\ Cardinality(A(r)) \in Nat
    BY <1>4, FS_Subset, FS_CardinalityType
  <2>2. Cardinality(A(r)) # 0
    BY <1>4, FS_EmptySet
  <2> HIDE DEF A
  <2> QED BY <1>1, <2>1, <2>2
<1>6. \A r, s \in rows : r # s => s \in A(r) \/ r \in A(s)
  BY <1>3 DEF Ahead
<1>7. \A r, s \in rows : r # s /\ s \in A(r) => place[s] < place[r]
  BY <1>3, PlacesDiffer
<1>8. place \in Injection(rows, 1 .. n)
  <2>1. \A r, s \in rows : place[r] = place[s] => r = s
    BY <1>1, <1>5, <1>6, <1>7
  <2> QED BY <1>5, <2>1 DEF Injection, IsInjective
<1>9. place \in Bijection(rows, 1 .. n)
  <2>1. IsFiniteSet(1 .. n) /\ Cardinality(1 .. n) = n
    BY <1>1, FS_Interval
  <2>2. place \in Surjection(rows, 1 .. n)
    BY <1>8, <2>1, FS_Injection
  <2> QED BY <1>8, <2>2 DEF Bijection
<1>10. \A r, s \in rows : place[r] < place[s] => column[r] <= column[s]
  <2> TAKE r, s \in rows
  <2> HAVE place[r] < place[s]
  <2>1. r # s /\ s \notin A(r)
    BY <1>5, <1>7
  <2>2. r \in A(s)
    BY <1>6, <2>1
  <2> QED BY <2>2, <1>3 DEF Ahead
<1> QED BY <1>9, <1>10

\* Every row is listed once, by ascending or by descending order.
LEMMA SortedLists ==
  ASSUME NEW rows, IsFiniteSet(rows), NEW column, column \in [DOMAIN column -> Int],
         rows \subseteq DOMAIN column, NEW order
  PROVE  /\ Sorted(rows, column, order) \in [1 .. Cardinality(rows) -> rows]
         /\ \A r \in rows : \E i \in 1 .. Cardinality(rows) :
              /\ Sorted(rows, column, order)[i] = r
              /\ \A j \in 1 .. Cardinality(rows) : Sorted(rows, column, order)[j] = r => j = i
<1> DEFINE n == Cardinality(rows)
           by == [r \in rows |-> IF order = "asc" THEN column[r] ELSE -column[r]]
           Ok(s) == \A i, j \in DOMAIN s : i < j =>
                      /\ s[i] # s[j]
                      /\ IF order = "asc" THEN column[s[i]] <= column[s[j]]
                                          ELSE column[s[i]] >= column[s[j]]
           sorted == Sorted(rows, column, order)
<1>1. n \in Nat
  BY FS_CardinalityType
<1>2. by \in [rows -> Int]
  OBVIOUS
<1>3. PICK place \in Bijection(rows, 1 .. n) :
        \A r, s \in rows : place[r] < place[s] => by[r] <= by[s]
  <2> HIDE DEF by
  <2> QED BY <1>2, Ordered
<1>4. /\ place \in [rows -> 1 .. n]
      /\ \A i \in 1 .. n : \E r \in rows : place[r] = i
  BY <1>3 DEF Bijection, Surjection
<1> DEFINE inv == [i \in 1 .. n |-> CHOOSE r \in rows : place[r] = i]
<1>5. \A i \in 1 .. n : inv[i] \in rows /\ place[inv[i]] = i
  BY <1>4
<1>6. inv \in [1 .. n -> rows]
  BY <1>5
<1>7. Ok(inv)
  <2> HIDE DEF inv
  <2> SUFFICES ASSUME NEW i \in 1 .. n, NEW j \in 1 .. n, i < j
               PROVE  /\ inv[i] # inv[j]
                      /\ IF order = "asc" THEN column[inv[i]] <= column[inv[j]]
                                          ELSE column[inv[i]] >= column[inv[j]]
    BY <1>6
  <2>1. inv[i] # inv[j]
    BY <1>5
  <2>2. by[inv[i]] <= by[inv[j]] /\ inv[i] \in rows /\ inv[j] \in rows
    BY <1>3, <1>5
  <2>3. column[inv[i]] \in Int /\ column[inv[j]] \in Int
    BY <2>2
  <2> QED BY <2>1, <2>2, <2>3
<1>8. sorted \in [1 .. n -> rows] /\ Ok(sorted)
  <2>1. sorted = CHOOSE s \in [1 .. n -> rows] : Ok(s)
    BY DEF Sorted
  <2> HIDE DEF inv, Ok
  <2> QED BY <1>6, <1>7, <2>1
<1>9. \A i, j \in 1 .. n : i # j => sorted[i] # sorted[j]
  <2> HIDE DEF sorted, n
  <2>1. \A i, j \in 1 .. n : i < j => sorted[i] # sorted[j]
    BY <1>8
  <2> QED BY <1>1, <2>1
<1>10. sorted \in Surjection(1 .. n, rows)
  <2>1. sorted \in Injection(1 .. n, rows)
    BY <1>8, <1>9 DEF Injection, IsInjective
  <2>2. IsFiniteSet(1 .. n) /\ Cardinality(1 .. n) = n
    BY <1>1, FS_Interval
  <2> QED BY <2>1, <2>2, FS_Injection
<1> QED BY <1>8, <1>9, <1>10 DEF Surjection

\* The row at place i is on one page, one of those there are.
LEMMA OnePage ==
  ASSUME NEW i \in Nat \ {0}, NEW n \in Nat, i <= n, NEW per \in Nat \ {0}
  PROVE  \E p \in 0 .. n \div per :
           /\ p * per < i /\ i <= p * per + per
           /\ \A q \in 0 .. n \div per : q * per < i /\ i <= q * per + per => q = p
<1> DEFINE p == (i - 1) \div per
           last == n \div per
<1>1. p \in Nat /\ last \in Nat
  BY SMT
<1>2. p * per <= i - 1 /\ i - 1 < p * per + per
  BY SMT
<1>3. n < last * per + per
  BY SMT
<1> HIDE DEF p, last
<1>4. ASSUME NEW a \in Nat, NEW b \in Nat, a < b
      PROVE  a * per + per <= b * per
  BY <1>4, SMT
<1>5. \A a \in Nat : a * per \in Nat
  BY SMT
<1>6. p <= last
  <2> SUFFICES ASSUME last < p PROVE FALSE
    BY <1>1
  <2>1. last * per + per <= p * per
    BY <1>1, <1>4
  <2> QED BY <1>1, <1>2, <1>3, <1>5, <2>1
<1>7. ASSUME NEW q \in Nat, q * per < i, i <= q * per + per
      PROVE  q = p
  <2>1. ~ (q < p)
    BY <1>1, <1>2, <1>4, <1>5, <1>7
  <2>2. ~ (p < q)
    BY <1>1, <1>2, <1>4, <1>5, <1>7
  <2> QED BY <1>1, <2>1, <2>2
<1>8. p \in 0 .. last
  BY <1>1, <1>6
<1>9. p * per < i /\ i <= p * per + per
  BY <1>1, <1>2, <1>5
<1> QED BY <1>1, <1>7, <1>8, <1>9 DEF last

LEMMA EachRowOnce ==
  ASSUME NEW rows, IsFiniteSet(rows), NEW column, column \in [DOMAIN column -> Int],
         rows \subseteq DOMAIN column, NEW table, table.per \in Nat \ {0}, NEW row \in rows,
         "page" \in DOMAIN table
  PROVE  Cardinality({n \in 0 .. TotalPages(rows, table) :
                        row \in Shown(rows, column, [table EXCEPT !.page = n])}) = 1
<1> DEFINE total == Cardinality(rows)
           per == table.per
           sorted == Sorted(rows, column, table.order)
           Here0(n) == row \in Shown(rows, column, [table EXCEPT !.page = n])
<1>1. total \in Nat
  BY FS_CardinalityType
<1>2. PICK i \in 1 .. total : /\ sorted[i] = row
                              /\ \A j \in 1 .. total : sorted[j] = row => j = i
  BY SortedLists
<1>3. DOMAIN sorted = 1 .. total
  BY SortedLists
<1>4. \A n \in Nat : Here0(n) <=> n * per < i /\ i <= n * per + per
  <2> TAKE n \in Nat
  <2> DEFINE t == [table EXCEPT !.page = n]
  <2>1. t.page = n /\ t.per = per /\ t.order = table.order
    OBVIOUS
  <2> HIDE DEF sorted
  <2>2. Here0(n) <=> \E j \in DOMAIN sorted :
                       sorted[j] = row /\ n * per < j /\ j <= n * per + per
    BY <2>1 DEF Shown, sorted
  <2> QED BY <1>2, <1>3, <2>2
<1>5. PICK p \in 0 .. total \div per :
           /\ p * per < i /\ i <= p * per + per
           /\ \A q \in 0 .. total \div per : q * per < i /\ i <= q * per + per => q = p
  BY <1>1, OnePage
<1>6. 0 .. total \div per \subseteq Nat
  OBVIOUS
<1> HIDE DEF Here0
<1>7. {n \in 0 .. total \div per : Here0(n)} = {p}
  BY <1>4, <1>5, <1>6
<1> QED BY <1>7, FS_Singleton DEF TotalPages, Here0

-----------------------------------------------------------------------------
(* The theorems.                                                           *)

LEMMA StepOK ==
  ASSUME Inv, [Next]_vars
  PROVE  Inv'
<1>1. CASE Next
  BY <1>1, NextKinds, KindsOK
<1>2. CASE UNCHANGED vars
  <2>1. RequestsOK' /\ MessagesOK'
    BY <1>2, StillAsked, StillHeard DEF vars, wire
  <2>2. DataOK' /\ LinkOK'
    BY <1>2 DEF vars, hub, wire, copy, view, Inv, DataOK, LinkOK
  <2>3. /\ PageOK' /\ TasksOK' /\ conn' \in {"NotConnected", "Connected"}
        /\ page' \in Pages /\ hooks' \subseteq Stored
    BY <1>2, SameView DEF vars, view
  <2>4. TypeOK'
    BY <1>2, <2>1, <2>3, StillTyped DEF vars, hub, copy, status, Inv, TypeOK
  <2> QED BY <2>1, <2>2, <2>3, <2>4 DEF Inv
<1> QED BY <1>1, <1>2

LEMMA Invariant == Spec => []Inv
BY InitOK, StepOK, PTL DEF Spec

\* TypeOK for every database, every set of pages, viewers and redeems, and
\* every budget: what the reducers, the hub and the pages make of each other's
\* messages is always of the form the others expect.
THEOREM StoreTyping == Spec => []TypeOK
<1>1. Inv => TypeOK
  BY DEF Inv
<1> QED BY <1>1, Invariant, PTL

\* The setup's step that is stored, and the one a page shows, is always one
\* of `steps`, whatever other tabs, late answers and lost connections do: a
\* step is only ever computed from the step that is shown.
THEOREM OnlyStepsThatExist == Spec => []StoredStepExists
<1>1. Inv => StoredStepExists
  BY UiStep, UiKeys, TheKeys DEF Inv, DataOK, Fits, StoredStepExists
<1> QED BY <1>1, Invariant, PTL

LEMMA NothingChanged ==
  ASSUME NEW t
  PROVE  Cardinality(Changed(t, t)) = 0
<1>1. Changed(t, t) = {}
  BY DEF Changed
<1> QED BY <1>1, FS_EmptySet

\* A request is taken off the queue by the hub only, and what the hub stores
\* then is the edit that was sent.
LEMMA PutIsEdit ==
  ASSUME Inv, Kinds, NEW k \in Tables, up # <<>>, Head(up).op = "put", Head(up).key = k,
         Head(up).base = db[k], up' = Tail(up)
  PROVE  Cardinality(Changed(db[k], db'[k])) <= IF k \in {Commands, Timers} THEN 2 ELSE 1
<1>1. CASE UNCHANGED db
  BY <1>1, NothingChanged
<1>2. CASE HubPut
  <2>1. IsEdit(k, db[k], Head(up).value)
    BY <1>2, HandlingOK DEF HubPut, IsRequest
  <2>2. db'[k] = Head(up).value
    BY <1>2, TablesKept, TheKeys DEF HubPut, Write, Inv, TypeOK
  <2> QED BY <2>1, <2>2 DEF IsEdit
<1>3. CASE HubPutPoints
  BY <1>3 DEF HubPutPoints, Handling
<1>4. up' # up
  <2>1. Len(up) \in Nat \ {0} /\ DOMAIN up = 1 .. Len(up) /\ DOMAIN Tail(up) = 1 .. Len(up) - 1
    BY HeadHeld DEF Inv, RequestsOK, IsSeq
  <2>2. Len(up) \in DOMAIN up /\ Len(up) \notin DOMAIN Tail(up)
    BY <2>1
  <2> QED BY <2>2
<1>5. ~ManagerRemoves /\ ~ElsewhereStep /\ \A r \in Redeems : ~ViewerRedeems(r)
  BY <1>4 DEF ManagerRemoves, ElsewhereStep, WrittenElsewhere, ViewerRedeems
<1>6. CASE HubGet \/ HubSubscribe \/ HubRemove
  BY <1>1, <1>6 DEF HubGet, HubSubscribe, HubRemove
<1>7. CASE Heard
  BY <1>1, <1>7 DEF Heard, hub, Loaded, Pushed, SetterAnswered, PointsLoaded, PointsPushed,
     AuthKeysPushed, AuthKeysRead, BotSaved, StepSaved
<1>8. CASE PageStep \/ DraftStep \/ MountStep \/ Disconnect
  BY <1>1, <1>8 DEF PageStep, DraftStep, Changes, MountStep, Disconnect, hub
<1> QED BY <1>2, <1>3, <1>5, <1>6, <1>7, <1>8 DEF Kinds, Hub

\* Saving a table that was computed from what is still stored changes the
\* edited entry, or the two names of a rename, and nothing else: of any
\* table, from any dialog, however many requests are on their way.
THEOREM SavesOnlyTheEdit == Spec => OnlyTheEdit
<1> DEFINE A == \A k \in Tables :
                  (up # <<>> /\ Head(up).op = "put" /\ Head(up).key = k
                     /\ Head(up).base = db[k] /\ up' = Tail(up))
                  => Cardinality(Changed(db[k], db'[k]))
                       <= IF k \in {Commands, Timers} THEN 2 ELSE 1
<1>1. Inv /\ [Next]_vars => [A]_vars
  BY NextKinds, PutIsEdit
<1>2. Spec => [][A]_vars
  BY <1>1, Invariant, PTL DEF Spec
<1> QED BY <1>2 DEF OnlyTheEdit

\* Every redeem of the queue, and every viewer, is on exactly one page of its
\* list, and that is one the page buttons lead to: for any number of rows and
\* any size of a page, whatever the order.
THEOREM EveryRowIsOnAPage == Spec => []EveryRowHasAPage
<1>1. Inv => EveryRowHasAPage
  <2> SUFFICES ASSUME Inv, Here("queue") \/ Here("users") PROVE EveryRowHasAPage
    BY DEF EveryRowHasAPage
  <2>1. CASE Here("queue")
    <3>1. page = "queue" /\ IsPaging(local.table)
      BY <2>1, OnQueue DEF IsQueueView
    <3>2. QueueRows \subseteq Redeems
      <4>1. Queue \in Keys
        BY DEF Queue, Keys, Modules
      <4>2. copies[Queue] = null \/ Listed(copies[Queue]) \subseteq Redeems
        BY <4>1 DEF Inv, DataOK, Fits
      <4> QED BY <4>2 DEF QueueRows, Listed
    <3>3. IsFiniteSet(QueueRows)
      BY <3>2, FS_Subset, PointsAssumption
    <3>4. When \in [Redeems -> Int] /\ DOMAIN When = Redeems
      BY PointsAssumption DEF When
    <3>5. local.table.per \in Nat \ {0} /\ "page" \in DOMAIN local.table
      BY <3>1, PointsAssumption DEF IsPaging, Table
    <3>6. \A row \in QueueRows :
            Cardinality({n \in 0 .. TotalPages(QueueRows, local.table) :
               row \in Shown(QueueRows, When, [local.table EXCEPT !.page = n])}) = 1
      BY <3>2, <3>3, <3>4, <3>5, EachRowOnce
    <3> QED BY <3>1, <3>6 DEF EveryRowHasAPage
  <2>2. CASE Here("users")
    <3>1. page = "users" /\ IsPaging(local.table)
      BY <2>2, OnUsers DEF IsUsersView
    <3>2. IsFiniteSet(UserRows)
      BY PointsAssumption, FS_EmptySet DEF UserRows
    <3>3. \A row \in UserRows : Points \in [Users -> Int] /\ UserRows = Users
      BY DEF Inv, TypeOK, UserRows, Points
    <3>4. local.table.per \in Nat \ {0} /\ "page" \in DOMAIN local.table
      BY <3>1, PointsAssumption DEF IsPaging, Table
    <3>5. \A row \in UserRows :
            Cardinality({n \in 0 .. TotalPages(UserRows, local.table) :
               row \in Shown(UserRows, Points, [local.table EXCEPT !.page = n])}) = 1
      <4> TAKE row \in UserRows
      <4>1. Points \in [DOMAIN Points -> Int] /\ UserRows \subseteq DOMAIN Points
        BY <3>3
      <4> QED BY <3>2, <3>4, <4>1, EachRowOnce
    <3> QED BY <3>1, <3>5 DEF EveryRowHasAPage
  <2> QED BY <2>1, <2>2
<1> QED BY <1>1, Invariant, PTL
=============================================================================
