------------------------------ MODULE Loyalty ------------------------------
(***************************************************************************)
(* The loyalty manager: viewers' point balances, the queue of redeemed     *)
(* rewards and the community goals.  Every piece of state exists twice, as *)
(* a copy in the manager's memory and under a key of the database, and the *)
(* database pushes every write of a key back to the manager.  Chat         *)
(* commands, RPCs and the points loop run in goroutines of their own and   *)
(* take no lock across their steps; an action is one access to the memory  *)
(* copy or one database request of such a goroutine.                       *)
(***************************************************************************)
EXTENDS Integers, Sequences, FiniteSets

CONSTANTS
  Users,          \* viewers, each the owner of the key PointsPrefix+user
  Rewards, Goals, \* reward and goal IDs
  QueueKey, GoalsKey,
  Handlers,       \* goroutines that run chat commands and RPC callbacks
  Ticker,         \* the goroutine that awards points every interval
  None,
  Price,          \* Reward.Price
  HasCooldown,    \* the rewards with Reward.Cooldown > 0
  TotalGoal,      \* Goal.TotalGoal
  Offers,         \* points a viewer may type after !contribute
  Award,          \* what a round of the points loop gives each viewer
  StartPoints,    \* every viewer's balance in the initial database
  ClientPoints, ClientGoals, \* what other database clients may write
  Limits          \* bounds on the environment, see Budgets

Workers == Handlers \cup {Ticker}
Keys == Users \cup {QueueKey, GoalsKey}
Budgets == {"command", "round", "client", "restart", "failure"}

\* An entry of the queue: `when` tells apart the redeems of one viewer, as
\* time.Now() does.
Redeem == [user : Users, reward : Rewards, when : Nat]

\* The saved goals: the points contributed to each goal, None for a goal that
\* is not in the list (any more).
GoalList == [Goals -> Int \cup {None}]

\* What is kept under each key.
Value(k) == CASE k = QueueKey -> SUBSET Redeem
              [] k = GoalsKey -> GoalList
              [] OTHER -> Int

ASSUME KeysAssumption ==
  /\ QueueKey # GoalsKey /\ {QueueKey, GoalsKey} \cap Users = {}
  /\ Ticker \notin Handlers
  /\ None \notin Users \cup {QueueKey, GoalsKey} \cup Rewards \cup Goals \cup Int
ASSUME DataAssumption ==
  /\ Price \in [Rewards -> Int] /\ HasCooldown \subseteq Rewards
  /\ TotalGoal \in [Goals -> Int] /\ Offers \subseteq Nat \ {0}
  /\ Award \in Int /\ StartPoints \in Int
  /\ ClientPoints \subseteq Int /\ ClientGoals \subseteq GoalList
  /\ Limits \in [Budgets -> Nat]

VARIABLES
  mem,       \* Manager.points, Manager.Queue and Manager.Goals, by key
  store,     \* the values of the same keys in the database
  echo,      \* pushes of each key that Manager.update has yet to apply
  hot,       \* rewards whose Manager.cooldowns entry lies in the future
  pc, job,   \* where each goroutine is, and what it works on
  snap,      \* the value a goroutine read or computed in its last step
  announced, \* redeems written to RedeemEvent
  charged,   \* history: redeems whose price was taken from their viewer
  unsaved,   \* history: keys whose last local change the database refused
  ledger,    \* history: balances if all updates had happened one by one
  crossed,   \* history: viewers two of whose updates overlapped, or who had
             \* an update that was not saved when the program stopped
  budget     \* how much of Limits is left

vars == <<mem, store, echo, hot, pc, job, snap, announced, charged, unsaved,
          ledger, crossed, budget>>
kv == <<mem, store, echo, unsaved>>
threads == <<pc, job, snap>>
history == <<announced, charged, ledger, crossed>>

NoJob == [kind |-> "none", users |-> {}, user |-> None, item |-> None,
          delta |-> 0, when |-> 0]

Init ==
  /\ store = [k \in Keys |-> CASE k = QueueKey -> {}
                               [] k = GoalsKey -> [g \in Goals |-> 0]
                               [] OTHER -> StartPoints]
  /\ mem = store
  /\ echo = [k \in Keys |-> <<>>]
  /\ hot = {}
  /\ pc = [w \in Workers |-> "idle"]
  /\ job = [w \in Workers |-> NoJob]
  /\ snap = [w \in Workers |-> None]
  /\ announced = {} /\ charged = {} /\ unsaved = {}
  /\ ledger = [u \in Users |-> StartPoints] /\ crossed = {}
  /\ budget = Limits

-----------------------------------------------------------------------------
Spend(b) == budget[b] > 0 /\ budget' = [budget EXCEPT ![b] = @ - 1]

Set(k, v) == mem' = [mem EXCEPT ![k] = v]

\* PutJSON of a key the manager is subscribed to.
Write(k, v) ==
  /\ store' = [store EXCEPT ![k] = v]
  /\ echo' = [echo EXCEPT ![k] = Append(@, v)]
  /\ unsaved' = unsaved \ {k}

Refuse(k) ==
  /\ Spend("failure")
  /\ unsaved' = unsaved \cup {k}
  /\ UNCHANGED <<store, echo>>

At(w, step) == pc[w] = step
Go(w, step) == pc' = [pc EXCEPT ![w] = step]
Keep(w, v) == snap' = [snap EXCEPT ![w] = v]
Forget(w) == Keep(w, None)
Return(w) == /\ Go(w, "idle") /\ Forget(w)
             /\ job' = [job EXCEPT ![w] = NoJob]

RedeemOf(w) == [user |-> job[w].user, reward |-> job[w].item,
                when |-> job[w].when]

\* The key whose value a goroutine saves as a whole, and its memory copy.
ListKey(w) == IF job[w].kind = "contribute" THEN GoalsKey ELSE QueueKey

\* w has read u's balance and not written the new one yet.
Updating(w, u) == pc[w] \in {"setPoints", "putPoints"} /\ job[w].user = u

Start(w, step, j) ==
  /\ At(w, "idle")
  /\ Go(w, step)
  /\ job' = [job EXCEPT ![w] = j]

-----------------------------------------------------------------------------
(* Redeeming a reward.                                                     *)

\* !redeem: the reward exists, is enabled, and the viewer can afford it.
CommandRedeem(w, u, r) ==
  /\ mem[u] - Price[r] >= 0
  /\ Spend("command")
  /\ Start(w, "cooldown", [kind |-> "redeem", users |-> {u}, user |-> u,
                           item |-> r, delta |-> -Price[r],
                           when |-> budget["command"]])
  /\ UNCHANGED <<kv, hot, snap, history>>

\* PerformRedeem compares the clock with the reward's cooldown.
CheckCooldown(w) ==
  /\ At(w, "cooldown")
  /\ \/ job[w].item \in hot /\ Return(w)
     \/ job[w].item \notin hot /\ Go(w, "append") /\ UNCHANGED <<job, snap>>
  /\ UNCHANGED <<kv, hot, history, budget>>

\* Fault: the RPC's payload lacks the user's name.
CreateForNobody(w, u, r) ==
  /\ Spend("command")
  /\ Start(w, "append", [kind |-> "create", users |-> {u}, user |-> None,
                         item |-> r, delta |-> 0,
                         when |-> budget["command"]])
  /\ UNCHANGED <<kv, hot, snap, history>>

\* The RPC enters at AddRedeem: no affordability or cooldown check.
RPCCreate(w, u, r) ==
  /\ Spend("command")
  /\ Start(w, "append", [kind |-> "create", users |-> {u}, user |-> u,
                         item |-> r, delta |-> 0,
                         when |-> budget["command"]])
  /\ UNCHANGED <<kv, hot, snap, history>>

\* AddRedeem: m.Queue.Set(append(m.Queue.Get(), redeem)).
ReadQueue(w) ==
  /\ At(w, "append")
  /\ Keep(w, mem[QueueKey])
  /\ Go(w, "publish")
  /\ UNCHANGED <<kv, hot, job, history, budget>>

AppendQueue(w) ==
  /\ At(w, "publish")
  /\ Set(QueueKey, snap[w] \cup {RedeemOf(w)})
  /\ Go(w, "event")
  /\ UNCHANGED <<store, echo, unsaved, hot, job, snap, history, budget>>

\* Fault: AddRedeem logs the error of the event and goes on.
IgnoreEventError(w) ==
  /\ At(w, "event")
  /\ \/ /\ announced' = announced \cup {RedeemOf(w)}
        /\ Go(w, "heat")
        /\ UNCHANGED <<job, snap, unsaved, budget, store, echo>>
     \/ Refuse(QueueKey) /\ Go(w, "heat") /\ UNCHANGED <<job, snap, announced>>
  /\ UNCHANGED <<mem, hot, charged, ledger, crossed>>

\* The redeem event; on an error AddRedeem returns with the queue unsaved.
SendEvent(w) ==
  /\ At(w, "event")
  /\ \/ /\ announced' = announced \cup {RedeemOf(w)}
        /\ Go(w, "heat")
        /\ UNCHANGED <<job, snap, unsaved, budget, store, echo>>
     \/ Refuse(QueueKey) /\ Return(w) /\ UNCHANGED announced
  /\ UNCHANGED <<mem, hot, charged, ledger, crossed>>

StartCooldown(w) ==
  /\ At(w, "heat")
  /\ hot' = hot \cup ({job[w].item} \cap HasCooldown)
  /\ Go(w, "marshal")
  /\ UNCHANGED <<kv, job, snap, history, budget>>

\* saveQueue and SaveGoals: PutJSON of what Get returns.
ReadList(w) ==
  /\ At(w, "marshal")
  /\ Keep(w, mem[ListKey(w)])
  /\ Go(w, "save")
  /\ UNCHANGED <<kv, hot, job, history, budget>>

SaveList(w) ==
  /\ At(w, "save")
  /\ \/ /\ Write(ListKey(w), snap[w])
        /\ \/ job[w].kind = "redeem" /\ Go(w, "balance") /\ Forget(w)
              /\ UNCHANGED job
           \/ job[w].kind # "redeem" /\ Return(w)
        /\ UNCHANGED budget
     \/ Refuse(ListKey(w)) /\ Return(w)
  /\ UNCHANGED <<mem, hot, history>>

\* The RPC that takes a redeem off the queue; the client that sends it shows
\* a queue of its own, so the redeem may be gone already.
RPCRemove(w, r) ==
  /\ Spend("command")
  /\ r \in announced \cup store[QueueKey]
  /\ Start(w, "find", [kind |-> "remove", users |-> {r.user}, user |-> r.user,
                       item |-> r.reward, delta |-> 0, when |-> r.when])
  /\ UNCHANGED <<kv, hot, snap, history>>

FindRedeem(w) ==
  /\ At(w, "find")
  /\ \/ /\ RedeemOf(w) \in mem[QueueKey]
        /\ Keep(w, mem[QueueKey]) /\ Go(w, "unlist") /\ UNCHANGED job
     \/ RedeemOf(w) \notin mem[QueueKey] /\ Return(w)
  /\ UNCHANGED <<kv, hot, history, budget>>

\* Fault: RemoveRedeem forgets saveQueue.
UnlistUnsaved(w) ==
  /\ At(w, "unlist")
  /\ Set(QueueKey, snap[w] \ {RedeemOf(w)})
  /\ Return(w)
  /\ UNCHANGED <<store, echo, unsaved, hot, history, budget>>

UnlistRedeem(w) ==
  /\ At(w, "unlist")
  /\ Set(QueueKey, snap[w] \ {RedeemOf(w)})
  /\ Go(w, "marshal")
  /\ UNCHANGED <<store, echo, unsaved, hot, job, snap, history, budget>>

-----------------------------------------------------------------------------
(* GivePoints and TakePoints: a loop over users that adds job.delta.       *)

\* The points loop awards viewers that are online.
AwardRound(U) ==
  /\ Spend("round")
  /\ Start(Ticker, "balance", [kind |-> "award", users |-> U, user |-> None,
                               item |-> None, delta |-> Award, when |-> 0])
  /\ UNCHANGED <<kv, hot, snap, history>>

\* An update of u's balance begins: does it cross another one?
Cross(u, coming) ==
  crossed' = IF coming \/ \E w \in Workers : Updating(w, u)
             THEN crossed \cup {u} ELSE crossed

\* Fault: the new balance is computed from the one in the database.
ReadStoredBalance(w) ==
  /\ At(w, "balance")
  /\ \E u \in job[w].users :
       /\ job' = [job EXCEPT ![w].user = u, ![w].users = @ \ {u}]
       /\ Keep(w, store[u] + job[w].delta)
       /\ Cross(u, echo[u] # <<>>)
  /\ Go(w, "setPoints")
  /\ UNCHANGED <<kv, hot, announced, charged, ledger, budget>>

ReadBalance(w) ==
  /\ At(w, "balance")
  /\ \E u \in job[w].users :
       /\ job' = [job EXCEPT ![w].user = u, ![w].users = @ \ {u}]
       /\ Keep(w, mem[u] + job[w].delta)
       /\ Cross(u, echo[u] # <<>>)
  /\ Go(w, "setPoints")
  /\ UNCHANGED <<kv, hot, announced, charged, ledger, budget>>

\* setPoints: first the memory copy, then the database.
SetPoints(w) ==
  /\ At(w, "setPoints")
  /\ Set(job[w].user, snap[w])
  /\ ledger' = [ledger EXCEPT ![job[w].user] = @ + job[w].delta]
  /\ charged' = IF job[w].kind = "redeem" THEN charged \cup {RedeemOf(w)}
                                          ELSE charged
  /\ Go(w, "putPoints")
  /\ UNCHANGED <<store, echo, unsaved, hot, job, snap, announced, crossed,
                 budget>>

\* Fault: a refused update is tried again.
PutPointsAgain(w) ==
  /\ At(w, "putPoints")
  /\ \/ /\ Write(job[w].user, snap[w])
        /\ \/ job[w].users # {} /\ Go(w, "balance") /\ Forget(w)
              /\ UNCHANGED job
           \/ job[w].users = {} /\ job[w].kind = "contribute"
              /\ Go(w, "findGoal") /\ Forget(w) /\ UNCHANGED job
           \/ job[w].users = {} /\ job[w].kind # "contribute" /\ Return(w)
        /\ UNCHANGED budget
     \/ /\ Refuse(job[w].user) /\ Go(w, "balance") /\ Forget(w)
        /\ job' = [job EXCEPT ![w].users = @ \cup {job[w].user}]
  /\ UNCHANGED <<mem, hot, history>>

PutPoints(w) ==
  /\ At(w, "putPoints")
  /\ \/ /\ Write(job[w].user, snap[w])
        /\ \/ job[w].users # {} /\ Go(w, "balance") /\ Forget(w)
              /\ UNCHANGED job
           \/ job[w].users = {} /\ job[w].kind = "contribute"
              /\ Go(w, "findGoal") /\ Forget(w) /\ UNCHANGED job
           \/ job[w].users = {} /\ job[w].kind # "contribute" /\ Return(w)
        /\ UNCHANGED budget
     \/ Refuse(job[w].user) /\ Return(w)
  /\ UNCHANGED <<mem, hot, history>>

-----------------------------------------------------------------------------
(* Contributing to a goal.                                                 *)

\* !contribute: an unreached goal of the list, and a number of points.
CommandContribute(w, u, g, points) ==
  /\ mem[GoalsKey][g] # None /\ mem[GoalsKey][g] < TotalGoal[g]
  /\ Spend("command")
  /\ Start(w, "offer", [kind |-> "contribute", users |-> {u}, user |-> u,
                        item |-> g, delta |-> -points,
                        when |-> budget["command"]])
  /\ Keep(w, mem[GoalsKey])
  /\ UNCHANGED <<kv, hot, history>>

Least(a, b) == IF a < b THEN a ELSE b

\* PerformContribution caps the offer at the balance and at what remains of
\* the copy of the goal the command looked at.
CapOffer(w) ==
  /\ At(w, "offer")
  /\ LET j == job[w]
         remaining == TotalGoal[j.item] - snap[w][j.item]
         points == Least(Least(-j.delta, mem[j.user]), remaining)
     IN job' = [job EXCEPT ![w].delta = -points]
  /\ Go(w, "balance") /\ Forget(w)
  /\ UNCHANGED <<kv, hot, history, budget>>

\* ContributeGoal: ErrGoalNotFound if the list no longer has the goal.
FindGoal(w) ==
  /\ At(w, "findGoal")
  /\ \/ /\ mem[GoalsKey][job[w].item] # None
        /\ Keep(w, mem[GoalsKey]) /\ Go(w, "addGoal") /\ UNCHANGED job
     \/ mem[GoalsKey][job[w].item] = None /\ Return(w)
  /\ UNCHANGED <<kv, hot, history, budget>>

\* Fault: ContributeGoal forgets SaveGoals.
AddUnsaved(w) ==
  /\ At(w, "addGoal")
  /\ \E list \in {snap[w], mem[GoalsKey]} :
       /\ list[job[w].item] # None
       /\ Set(GoalsKey, [list EXCEPT ![job[w].item] = @ - job[w].delta])
  /\ Return(w)
  /\ UNCHANGED <<store, echo, unsaved, hot, history, budget>>

\* The sum is stored into the list that Get returned, which is the live one
\* unless it was replaced or written to in between.
AddToGoal(w) ==
  /\ At(w, "addGoal")
  /\ \E list \in {snap[w], mem[GoalsKey]} :
       /\ list[job[w].item] # None
       /\ Set(GoalsKey, [list EXCEPT ![job[w].item] = @ - job[w].delta])
  /\ Go(w, "marshal")
  /\ UNCHANGED <<store, echo, unsaved, hot, job, snap, history, budget>>

-----------------------------------------------------------------------------
(* The rest of the world.                                                  *)

\* Manager.update applies a push; the pushes of one key arrive in order.
Update(k) ==
  /\ echo[k] # <<>>
  /\ Set(k, Head(echo[k]))
  /\ echo' = [echo EXCEPT ![k] = Tail(@)]
  /\ UNCHANGED <<store, unsaved, hot, threads, history, budget>>

\* Another client of the database (the dashboard, an extension) writes a key.
ClientSetsPoints(u, points) ==
  /\ Spend("client")
  /\ Write(u, points)
  /\ Cross(u, FALSE)
  /\ ledger' = [ledger EXCEPT ![u] = points]
  /\ UNCHANGED <<mem, hot, threads, announced, charged>>

ClientSavesGoals(list) ==
  /\ Spend("client")
  /\ Write(GoalsKey, list)
  /\ UNCHANGED <<mem, hot, threads, history>>

CooldownOver(r) ==
  /\ r \in hot
  /\ hot' = hot \ {r}
  /\ UNCHANGED <<kv, threads, history, budget>>

\* A goroutine has changed the memory copy of k and not saved it yet.
Changing(w, k) ==
  CASE k = QueueKey -> /\ job[w].kind \in {"redeem", "create", "remove"}
                       /\ pc[w] \in {"event", "heat", "marshal", "save"}
    [] k = GoalsKey -> /\ job[w].kind = "contribute"
                       /\ pc[w] \in {"marshal", "save"}
    [] OTHER -> pc[w] = "putPoints" /\ job[w].user = k

\* The program stops at any point, and NewManager loads the database.
Restart ==
  /\ Spend("restart")
  /\ mem' = store
  /\ echo' = [k \in Keys |-> <<>>]
  /\ hot' = {}
  /\ pc' = [w \in Workers |-> "idle"]
  /\ job' = [w \in Workers |-> NoJob]
  /\ snap' = [w \in Workers |-> None]
  /\ unsaved' = {}
  /\ crossed' = crossed \cup {u \in Users :
                   u \in unsaved \/ \E w \in Workers : Changing(w, u)}
  /\ UNCHANGED <<store, announced, charged, ledger>>

Begin(w) ==
  \/ \E u \in Users, r \in Rewards : CommandRedeem(w, u, r) \/ RPCCreate(w, u, r)
  \/ \E r \in announced \cup store[QueueKey] : RPCRemove(w, r)
  \/ \E u \in Users, g \in Goals, p \in Offers : CommandContribute(w, u, g, p)

Step(w) ==
  \/ CheckCooldown(w) \/ ReadQueue(w) \/ AppendQueue(w) \/ SendEvent(w)
  \/ StartCooldown(w) \/ ReadList(w) \/ SaveList(w)
  \/ FindRedeem(w) \/ UnlistRedeem(w)
  \/ ReadBalance(w) \/ SetPoints(w) \/ PutPoints(w)
  \/ CapOffer(w) \/ FindGoal(w) \/ AddToGoal(w)

Environment ==
  \/ \E U \in SUBSET Users \ {{}} : AwardRound(U)
  \/ \E u \in Users, p \in ClientPoints : ClientSetsPoints(u, p)
  \/ \E list \in ClientGoals : ClientSavesGoals(list)
  \/ \E r \in Rewards : CooldownOver(r)
  \/ Restart

Next ==
  \/ \E w \in Handlers : Begin(w)
  \/ \E w \in Workers : Step(w)
  \/ \E k \in Keys : Update(k)
  \/ Environment

Spec == Init /\ [][Next]_vars

\* A goroutine that can run does, the database answers, pushes are delivered.
Fairness ==
  /\ \A w \in Workers : WF_vars(Step(w))
  /\ \A k \in Keys : WF_vars(Update(k))
FairSpec == Spec /\ Fairness

-----------------------------------------------------------------------------
(* Properties.                                                             *)

\* The points of the code at which a goroutine can be interrupted.
ListSteps == {"append", "publish", "event", "heat", "marshal", "save"}
Steps == ListSteps \cup
  {"idle", "cooldown", "find", "unlist", "balance", "setPoints", "putPoints",
   "offer", "findGoal", "addGoal"}
Jobs == [kind : {"none", "redeem", "create", "remove", "award", "contribute"},
         users : SUBSET Users, user : Users \cup {None},
         item : Rewards \cup Goals \cup {None}, delta : Int, when : Nat]

\* What each variable holds.
TypeOK ==
  /\ DOMAIN mem = Keys /\ DOMAIN store = Keys /\ DOMAIN echo = Keys
  /\ \A k \in Keys :
       mem[k] \in Value(k) /\ store[k] \in Value(k) /\ echo[k] \in Seq(Value(k))
  /\ hot \subseteq Rewards
  /\ pc \in [Workers -> Steps] /\ job \in [Workers -> Jobs]
  /\ DOMAIN snap = Workers
  /\ announced \subseteq Redeem /\ charged \subseteq Redeem
  /\ unsaved \subseteq Keys
  /\ ledger \in [Users -> Int] /\ crossed \subseteq Users
  /\ budget \in [Budgets -> Nat]

Unfinished(k) == \E w \in Workers : Changing(w, k)

Settled(k) == echo[k] = <<>> /\ ~Unfinished(k) /\ k \notin unsaved

\* However commands, RPCs, awards, other clients and pushes interleave, once
\* nothing is under way for a key the manager's copy of it is the database's:
\* a stale push may overwrite a newer balance, queue or goal list, but then a
\* newer push is on its way.  The exception is a key whose last save failed:
\* setPoints, AddRedeem and SaveGoals do not undo the change in memory.
Agreement == \A k \in Keys : Settled(k) => mem[k] = store[k]

\* AddRedeem comes before TakePoints and its errors end the redeem, so points
\* are only ever taken for a redeem whose event was published, whatever is
\* refused by the database in between.
ChargedWereAnnounced == charged \subseteq announced

\* An update of a balance is lost only in a race of its own viewer: if it is
\* computed while another update of the same balance is between its read and
\* the push of its write (GivePoints, TakePoints and setPoints have no lock),
\* or if it was not in the database yet when the program stopped.  Apart from
\* these, refused writes, restarts, awards to others and everything the other
\* goroutines do leave each balance with all its updates.
BalancesAddUp ==
  \A u \in Users \ crossed : echo[u] = <<>> => mem[u] = ledger[u]


\* PerformContribution takes only what a goal still needs.
NoOvershoot ==
  \A g \in Goals : mem[GoalsKey][g] # None => mem[GoalsKey][g] <= TotalGoal[g]

\* Once viewers and clients stop, both copies of every key become equal and
\* stay so, unless the last save of the key was refused.
Converges ==
  <>[](\A k \in Keys : k \in unsaved \/ mem[k] = store[k])
=============================================================================
