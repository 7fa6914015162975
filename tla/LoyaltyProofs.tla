--------------------------- MODULE LoyaltyProofs ---------------------------
(***************************************************************************)
(* Theorems about the loyalty manager for any sets of viewers, rewards,    *)
(* goals and goroutines, any bounds and any interleaving: the typing, and  *)
(* the agreement of the two copies of every key once nothing is under way  *)
(* for it.                                                                 *)
(***************************************************************************)
EXTENDS Loyalty, TLAPS

\* What a goroutine holds at each step.
StepOK(w) ==
  LET j == job[w]  s == snap[w] IN
  /\ pc[w] = "idle" => j = NoJob
  /\ pc[w] \in {"cooldown", "append", "publish", "event", "heat", "find", "unlist"}
       \/ j.kind = "redeem"
     => j.user \in Users /\ j.item \in Rewards
  /\ pc[w] = "cooldown" => j.kind = "redeem"
  /\ pc[w] \in {"append", "publish", "event", "heat"}
     => j.kind \in {"redeem", "create"}
  /\ pc[w] \in {"find", "unlist"} => j.kind = "remove"
  /\ pc[w] \in {"marshal", "save"}
     => j.kind \in {"redeem", "create", "remove", "contribute"}
  /\ pc[w] \in {"balance", "setPoints", "putPoints"}
     => j.kind \in {"redeem", "award", "contribute"}
  /\ pc[w] \in {"offer", "findGoal", "addGoal"} => j.kind = "contribute"
  /\ j.kind = "contribute" => j.user \in Users /\ j.item \in Goals
  /\ pc[w] \in {"publish", "unlist"} => s \subseteq Redeem
  /\ pc[w] \in {"setPoints", "putPoints"} => j.user \in Users /\ s \in Int
  /\ pc[w] \in {"offer", "addGoal"} => s \in GoalList /\ s[j.item] \in Int
  /\ pc[w] = "save" => s \in Value(ListKey(w))

\* The typing that every step preserves.
Inv == TypeOK /\ \A w \in Workers : StepOK(w)

-----------------------------------------------------------------------------
(* Typing.                                                                 *)

\* A goroutine that an action does not move keeps what it holds.
LEMMA OthersKeep ==
  ASSUME NEW x \in Workers, StepOK(x),
         pc'[x] = pc[x], job'[x] = job[x], snap'[x] = snap[x]
  PROVE  StepOK(x)'
BY DEF StepOK, ListKey

LEMMA LeastInt == \A a, b \in Int : Least(a, b) \in Int
BY DEF Least

LEMMA KeyTypes ==
  /\ QueueKey \in Keys /\ GoalsKey \in Keys /\ Users \subseteq Keys
  /\ Value(QueueKey) = SUBSET Redeem
  /\ Value(GoalsKey) = GoalList
  /\ \A u \in Users : Value(u) = Int
BY KeysAssumption DEF Keys, Value

LEMMA InitInv == Init => Inv
<1> SUFFICES ASSUME Init PROVE Inv
  OBVIOUS
<1>1. store \in [Keys -> UNION {Int, SUBSET Redeem, GoalList}]
      /\ \A k \in Keys : store[k] \in Value(k)
  BY KeyTypes, KeysAssumption, DataAssumption DEF Init, Keys, Value, GoalList
<1>2. TypeOK
  <2>1. DOMAIN mem = Keys /\ DOMAIN store = Keys /\ DOMAIN echo = Keys
    BY <1>1 DEF Init
  <2>2. \A k \in Keys : mem[k] \in Value(k) /\ echo[k] \in Seq(Value(k))
    BY <1>1 DEF Init
  <2>3. pc \in [Workers -> Steps] /\ job \in [Workers -> Jobs]
    BY DEF Init, Steps, Jobs, NoJob
  <2>4. ledger \in [Users -> Int] /\ budget \in [Budgets -> Nat]
    BY DataAssumption DEF Init
  <2> QED BY <1>1, <2>1, <2>2, <2>3, <2>4 DEF Init, TypeOK
<1>3. \A w \in Workers : StepOK(w)
  BY DEF Init, StepOK, NoJob
<1> QED BY <1>2, <1>3 DEF Inv

\* Writing a value of the right type to one key, in memory or in the store.
LEMMA SetTyped ==
  ASSUME Inv, NEW k \in Keys, NEW v \in Value(k), Set(k, v)
  PROVE  DOMAIN mem' = Keys /\ \A i \in Keys : mem'[i] \in Value(i)
BY DEF Inv, TypeOK, Set

LEMMA WriteTyped ==
  ASSUME Inv, NEW k \in Keys, NEW v \in Value(k), Write(k, v)
  PROVE  /\ DOMAIN store' = Keys /\ DOMAIN echo' = Keys
         /\ \A i \in Keys : store'[i] \in Value(i) /\ echo'[i] \in Seq(Value(i))
         /\ unsaved' \subseteq Keys
<1>1. echo[k] \in Seq(Value(k)) /\ DOMAIN echo = Keys /\ DOMAIN store = Keys
  BY DEF Inv, TypeOK
<1>2. Append(echo[k], v) \in Seq(Value(k))
  BY <1>1
<1>3. \A i \in Keys : echo'[i] = IF i = k THEN Append(echo[k], v) ELSE echo[i]
  BY <1>1 DEF Write
<1>4. \A i \in Keys : store'[i] = IF i = k THEN v ELSE store[i]
  BY <1>1 DEF Write
<1> QED BY <1>1, <1>2, <1>3, <1>4 DEF Inv, TypeOK, Write

-----------------------------------------------------------------------------
(* Each step of a goroutine preserves the typing.                          *)

\* Nothing changes in the goroutines but for w.
Moves(w) ==
  /\ \E step \in Steps : Go(w, step)
  /\ job' = job \/ \E j \in Jobs : job' = [job EXCEPT ![w] = j]
  /\ snap' = snap \/ \E v : Keep(w, v)

LEMMA MovesTyped ==
  ASSUME Inv, NEW w \in Workers, Moves(w)
  PROVE  /\ pc' \in [Workers -> Steps] /\ job' \in [Workers -> Jobs]
         /\ DOMAIN snap' = Workers
         /\ \A x \in Workers \ {w} : StepOK(x)'
<1>1. /\ pc' \in [Workers -> Steps] /\ job' \in [Workers -> Jobs]
      /\ DOMAIN snap' = Workers
  BY DEF Inv, TypeOK, Moves, Go, Keep
<1>2. \A x \in Workers \ {w} :
        pc'[x] = pc[x] /\ job'[x] = job[x] /\ snap'[x] = snap[x]
  BY DEF Inv, TypeOK, Moves, Go, Keep
<1>3. \A x \in Workers \ {w} : StepOK(x)'
  BY <1>2, OthersKeep DEF Inv
<1> QED BY <1>1, <1>3

LEMMA ReturnMoves ==
  ASSUME NEW w \in Workers, Inv, Return(w)
  PROVE  Moves(w) /\ StepOK(w)'
<1>1. NoJob \in Jobs /\ "idle" \in Steps
  BY DEF NoJob, Jobs, Steps
<1>2. pc'[w] = "idle" /\ job'[w] = NoJob
  BY DEF Return, Go, Inv, TypeOK
<1>3. StepOK(w)'
  BY <1>2 DEF StepOK, NoJob
<1> QED BY <1>1, <1>3 DEF Return, Moves, Forget, Go, Keep

LEMMA CheckCooldownInv ==
  ASSUME Inv, NEW w \in Workers, CheckCooldown(w)
  PROVE  Inv'
<1>1. Moves(w) /\ StepOK(w)'
  <2>1. CASE Return(w)
    BY <2>1, ReturnMoves
  <2>2. CASE Go(w, "append") /\ UNCHANGED <<job, snap>>
    BY <2>2 DEF Moves, StepOK, CheckCooldown, At, Go, Inv, TypeOK, Steps,
                ListSteps, ListKey
  <2> QED BY <2>1, <2>2 DEF CheckCooldown
<1> QED BY <1>1, MovesTyped DEF CheckCooldown, Inv, TypeOK, kv, history

LEMMA ReadQueueInv ==
  ASSUME Inv, NEW w \in Workers, ReadQueue(w)
  PROVE  Inv'
<1>1. Moves(w) /\ StepOK(w)'
  BY KeyTypes DEF ReadQueue, Moves, StepOK, At, Go, Keep, Inv, TypeOK,
                  Steps, ListSteps, ListKey
<1> QED BY <1>1, MovesTyped DEF ReadQueue, Inv, TypeOK, kv, history

LEMMA RedeemTyped ==
  ASSUME Inv, NEW w \in Workers, job[w].user \in Users, job[w].item \in Rewards
  PROVE  RedeemOf(w) \in Redeem
BY DEF Inv, TypeOK, Jobs, RedeemOf, Redeem

LEMMA AppendQueueInv ==
  ASSUME Inv, NEW w \in Workers, AppendQueue(w)
  PROVE  Inv'
<1>1. Moves(w) /\ StepOK(w)'
  BY DEF AppendQueue, Moves, StepOK, At, Go, Inv, TypeOK, Steps, ListSteps,
         ListKey
<1>2. RedeemOf(w) \in Redeem /\ snap[w] \subseteq Redeem
  BY RedeemTyped DEF AppendQueue, At, Inv, StepOK
<1>3. DOMAIN mem' = Keys /\ \A k \in Keys : mem'[k] \in Value(k)
  BY <1>2, SetTyped, KeyTypes DEF AppendQueue
<1> QED BY <1>1, <1>3, MovesTyped DEF AppendQueue, Inv, TypeOK, history

LEMMA SpendTyped ==
  ASSUME Inv, NEW b \in Budgets, Spend(b)
  PROVE  budget' \in [Budgets -> Nat]
BY DEF Inv, TypeOK, Spend

LEMMA RefuseTyped ==
  ASSUME Inv, NEW k \in Keys, Refuse(k)
  PROVE  /\ budget' \in [Budgets -> Nat] /\ unsaved' \subseteq Keys
         /\ UNCHANGED <<store, echo>>
<1>1. "failure" \in Budgets
  BY DEF Budgets
<1> QED BY <1>1, SpendTyped DEF Refuse, Inv, TypeOK

LEMMA SendEventInv ==
  ASSUME Inv, NEW w \in Workers, SendEvent(w)
  PROVE  Inv'
<1>1. CASE announced' = announced \cup {RedeemOf(w)} /\ Go(w, "heat")
           /\ UNCHANGED <<job, snap, unsaved, budget, store, echo>>
  <2>1. Moves(w) /\ StepOK(w)'
    BY <1>1 DEF SendEvent, Moves, StepOK, At, Go, Inv, TypeOK, Steps,
                ListSteps, ListKey
  <2>2. RedeemOf(w) \in Redeem
    BY RedeemTyped DEF SendEvent, At, Inv, StepOK
  <2> QED BY <1>1, <2>1, <2>2, MovesTyped DEF SendEvent, Inv, TypeOK
<1>2. CASE Refuse(QueueKey) /\ Return(w) /\ UNCHANGED announced
  <2>1. Moves(w) /\ StepOK(w)'
    BY <1>2, ReturnMoves
  <2> QED BY <1>2, <2>1, MovesTyped, RefuseTyped, KeyTypes
          DEF SendEvent, Inv, TypeOK
<1> QED BY <1>1, <1>2 DEF SendEvent

LEMMA StartCooldownInv ==
  ASSUME Inv, NEW w \in Workers, StartCooldown(w)
  PROVE  Inv'
<1>1. Moves(w) /\ StepOK(w)'
  BY DEF StartCooldown, Moves, StepOK, At, Go, Inv, TypeOK, Steps,
         ListSteps, ListKey
<1>2. hot' \subseteq Rewards
  BY DataAssumption DEF StartCooldown, Inv, TypeOK
<1> QED BY <1>1, <1>2, MovesTyped DEF StartCooldown, Inv, TypeOK, kv, history

LEMMA ListKeyTypes ==
  ASSUME NEW w \in Workers
  PROVE  ListKey(w) \in Keys
BY KeyTypes DEF ListKey

LEMMA ReadListInv ==
  ASSUME Inv, NEW w \in Workers, ReadList(w)
  PROVE  Inv'
<1>1. mem[ListKey(w)] \in Value(ListKey(w))
  BY ListKeyTypes DEF Inv, TypeOK
<1>2. Moves(w)
  BY DEF ReadList, Moves, Go, Keep, Steps, ListSteps
<1>3. pc'[w] = "save" /\ job'[w] = job[w] /\ snap'[w] = mem[ListKey(w)]
      /\ ListKey(w)' = ListKey(w)
  BY DEF ReadList, Go, Keep, Inv, TypeOK, ListKey
<1>4. StepOK(w)'
  BY <1>1, <1>3 DEF ReadList, StepOK, At, Inv
<1> QED BY <1>2, <1>4, MovesTyped DEF ReadList, Inv, TypeOK, kv, history

LEMMA SaveListInv ==
  ASSUME Inv, NEW w \in Workers, SaveList(w)
  PROVE  Inv'
<1>1. CASE /\ Write(ListKey(w), snap[w])
           /\ \/ job[w].kind = "redeem" /\ Go(w, "balance") /\ Forget(w)
                 /\ UNCHANGED job
              \/ job[w].kind # "redeem" /\ Return(w)
           /\ UNCHANGED budget
  <2>1. snap[w] \in Value(ListKey(w))
    BY DEF SaveList, At, Inv, StepOK
  <2>2. Moves(w) /\ StepOK(w)'
    <3>1. CASE job[w].kind = "redeem" /\ Go(w, "balance") /\ Forget(w)
               /\ UNCHANGED job
      BY <3>1 DEF Moves, StepOK, Go, Keep, Forget, Inv, TypeOK, Steps, ListKey
    <3> QED BY <1>1, <3>1, ReturnMoves
  <2> QED BY <1>1, <2>1, <2>2, MovesTyped, WriteTyped, ListKeyTypes
          DEF SaveList, Inv, TypeOK, history
<1>2. CASE Refuse(ListKey(w)) /\ Return(w)
  <2>1. Moves(w) /\ StepOK(w)'
    BY <1>2, ReturnMoves
  <2> QED BY <1>2, <2>1, MovesTyped, RefuseTyped, ListKeyTypes
          DEF SaveList, Inv, TypeOK, history
<1> QED BY <1>1, <1>2 DEF SaveList

LEMMA FindRedeemInv ==
  ASSUME Inv, NEW w \in Workers, FindRedeem(w)
  PROVE  Inv'
<1>1. Moves(w) /\ StepOK(w)'
  <2>1. CASE /\ RedeemOf(w) \in mem[QueueKey]
             /\ Keep(w, mem[QueueKey]) /\ Go(w, "unlist") /\ UNCHANGED job
    BY <2>1, KeyTypes DEF FindRedeem, At, Moves, StepOK, Go, Keep, Inv, TypeOK,
                          Steps, ListKey
  <2> QED BY <2>1, ReturnMoves DEF FindRedeem
<1> QED BY <1>1, MovesTyped DEF FindRedeem, Inv, TypeOK, kv, history

LEMMA UnlistRedeemInv ==
  ASSUME Inv, NEW w \in Workers, UnlistRedeem(w)
  PROVE  Inv'
<1>1. Moves(w) /\ StepOK(w)'
  BY DEF UnlistRedeem, Moves, StepOK, At, Go, Inv, TypeOK, Steps, ListSteps,
         ListKey
<1>2. snap[w] \ {RedeemOf(w)} \in Value(QueueKey)
  BY KeyTypes DEF UnlistRedeem, At, Inv, StepOK
<1>3. DOMAIN mem' = Keys /\ \A k \in Keys : mem'[k] \in Value(k)
  BY <1>2, SetTyped, KeyTypes DEF UnlistRedeem
<1> QED BY <1>1, <1>3, MovesTyped DEF UnlistRedeem, Inv, TypeOK, history

LEMMA CrossTyped ==
  ASSUME Inv, NEW u \in Users, NEW coming, Cross(u, coming)
  PROVE  crossed' \subseteq Users
BY DEF Inv, TypeOK, Cross

LEMMA ReadBalanceInv ==
  ASSUME Inv, NEW w \in Workers, ReadBalance(w)
  PROVE  Inv'
<1>1. PICK u \in job[w].users :
        /\ job' = [job EXCEPT ![w].user = u, ![w].users = @ \ {u}]
        /\ Keep(w, mem[u] + job[w].delta)
  BY DEF ReadBalance
<1>2. job[w] \in Jobs /\ u \in Users
  BY DEF Inv, TypeOK, Jobs
<1>3. mem[u] + job[w].delta \in Int
  BY <1>2, KeyTypes DEF Inv, TypeOK, Jobs
<1>4. [job[w] EXCEPT !.user = u, !.users = @ \ {u}] \in Jobs
  BY <1>2 DEF Jobs
<1>5. job' = [job EXCEPT ![w] = [job[w] EXCEPT !.user = u, !.users = @ \ {u}]]
  BY <1>1 DEF Inv, TypeOK
<1>6. Moves(w)
  BY <1>1, <1>4, <1>5 DEF ReadBalance, Moves, Go, Steps
<1>7. pc'[w] = "setPoints" /\ snap'[w] \in Int
      /\ job'[w] = [job[w] EXCEPT !.user = u, !.users = @ \ {u}]
  BY <1>1, <1>3, <1>5 DEF ReadBalance, Go, Keep, Inv, TypeOK
<1>8. job'[w].user = u /\ job'[w].item = job[w].item
      /\ job'[w].kind = job[w].kind
  BY <1>2, <1>7 DEF Jobs
<1>9. StepOK(w)'
  BY <1>2, <1>7, <1>8 DEF ReadBalance, At, Inv, StepOK
<1>10. crossed' \subseteq Users
  <2>1. \E v \in job[w].users : Cross(v, echo[v] # <<>>)
    BY DEF ReadBalance
  <2> QED BY <1>2, <2>1, CrossTyped DEF Jobs
<1> QED BY <1>6, <1>9, <1>10, MovesTyped
        DEF ReadBalance, Inv, TypeOK, kv

LEMMA SetPointsInv ==
  ASSUME Inv, NEW w \in Workers, SetPoints(w)
  PROVE  Inv'
<1>1. Moves(w) /\ StepOK(w)'
  BY DEF SetPoints, Moves, StepOK, At, Go, Inv, TypeOK, Steps, ListKey
<1>2. job[w].user \in Users /\ snap[w] \in Int /\ job[w].delta \in Int
  BY DEF SetPoints, At, Inv, StepOK, TypeOK, Jobs
<1>3. DOMAIN mem' = Keys /\ \A k \in Keys : mem'[k] \in Value(k)
  BY <1>2, SetTyped, KeyTypes DEF SetPoints
<1>4. ledger' \in [Users -> Int]
  BY <1>2 DEF SetPoints, Inv, TypeOK
<1>5. charged' \subseteq Redeem
  <2>1. CASE job[w].kind = "redeem"
    BY <2>1, RedeemTyped DEF SetPoints, Inv, TypeOK, StepOK
  <2>2. CASE job[w].kind # "redeem"
    BY <2>2 DEF SetPoints, Inv, TypeOK
  <2> QED BY <2>1, <2>2
<1> QED BY <1>1, <1>3, <1>4, <1>5, MovesTyped DEF SetPoints, Inv, TypeOK

LEMMA PutPointsInv ==
  ASSUME Inv, NEW w \in Workers, PutPoints(w)
  PROVE  Inv'
<1>1. job[w].user \in Users /\ snap[w] \in Int
  BY DEF PutPoints, At, Inv, StepOK
<1>2. job[w].user \in Keys /\ Value(job[w].user) = Int
  BY <1>1, KeyTypes
<1>3. Moves(w) /\ StepOK(w)'
  <2>1. CASE Go(w, "balance") /\ Forget(w) /\ UNCHANGED job
    BY <2>1 DEF PutPoints, At, Moves, StepOK, Go, Keep, Forget, Inv, TypeOK,
                Steps, ListKey
  <2>2. CASE job[w].kind = "contribute" /\ Go(w, "findGoal") /\ Forget(w)
             /\ UNCHANGED job
    BY <2>2 DEF PutPoints, At, Moves, StepOK, Go, Keep, Forget, Inv, TypeOK,
                Steps, ListKey
  <2> QED BY <2>1, <2>2, ReturnMoves DEF PutPoints
<1>4. CASE Write(job[w].user, snap[w]) /\ UNCHANGED budget
  BY <1>1, <1>2, <1>3, <1>4, MovesTyped, WriteTyped
  DEF PutPoints, Inv, TypeOK, history
<1>5. CASE Refuse(job[w].user)
  BY <1>2, <1>3, <1>5, MovesTyped, RefuseTyped
  DEF PutPoints, Inv, TypeOK, history
<1> QED BY <1>4, <1>5 DEF PutPoints

LEMMA CapOfferInv ==
  ASSUME Inv, NEW w \in Workers, CapOffer(w)
  PROVE  Inv'
<1> DEFINE j == job[w]
           remaining == TotalGoal[j.item] - snap[w][j.item]
           points == Least(Least(-j.delta, mem[j.user]), remaining)
<1>1. /\ j \in Jobs /\ j.kind = "contribute" /\ j.user \in Users
      /\ j.item \in Goals /\ j.delta \in Int /\ snap[w][j.item] \in Int
  BY DEF CapOffer, At, Inv, StepOK, TypeOK, Jobs
<1>2. remaining \in Int /\ mem[j.user] \in Int
  BY <1>1, DataAssumption, KeyTypes DEF Inv, TypeOK
<1>3. points \in Int
  <2>1. -j.delta \in Int
    BY <1>1
  <2>2. Least(-j.delta, mem[j.user]) \in Int
    BY <1>2, <2>1, LeastInt
  <2> QED BY <1>2, <2>2, LeastInt
<1> HIDE DEF points
<1>4. job' = [job EXCEPT ![w] = [j EXCEPT !.delta = -points]]
  BY DEF CapOffer, Inv, TypeOK, points
<1>5. [j EXCEPT !.delta = -points] \in Jobs
  BY <1>1, <1>3 DEF Jobs
<1>6. Moves(w)
  BY <1>4, <1>5 DEF CapOffer, Moves, Steps, Forget
<1>7. pc'[w] = "balance" /\ job'[w] = [j EXCEPT !.delta = -points]
  BY <1>4 DEF CapOffer, Go, Inv, TypeOK
<1>8. job'[w].kind = "contribute" /\ job'[w].user \in Users
      /\ job'[w].item \in Goals
  BY <1>1, <1>7 DEF Jobs
<1>9. StepOK(w)'
  BY <1>7, <1>8 DEF StepOK
<1> QED BY <1>6, <1>9, MovesTyped DEF CapOffer, Inv, TypeOK, kv, history

LEMMA FindGoalInv ==
  ASSUME Inv, NEW w \in Workers, FindGoal(w)
  PROVE  Inv'
<1>1. Moves(w) /\ StepOK(w)'
  <2>1. CASE /\ mem[GoalsKey][job[w].item] # None
             /\ Keep(w, mem[GoalsKey]) /\ Go(w, "addGoal") /\ UNCHANGED job
    <3>1. mem[GoalsKey] \in GoalList /\ job[w].item \in Goals
          /\ job[w].kind = "contribute" /\ job[w].user \in Users
      BY KeyTypes DEF FindGoal, At, Inv, StepOK, TypeOK
    <3>2. mem[GoalsKey][job[w].item] \in Int
      BY <2>1, <3>1 DEF GoalList
    <3>3. pc'[w] = "addGoal" /\ job'[w] = job[w] /\ snap'[w] = mem[GoalsKey]
      BY <2>1 DEF Go, Keep, Inv, TypeOK
    <3>4. StepOK(w)'
      BY <3>1, <3>2, <3>3 DEF StepOK
    <3> QED BY <2>1, <3>4 DEF Moves, Go, Keep, Steps
  <2> QED BY <2>1, ReturnMoves DEF FindGoal
<1> QED BY <1>1, MovesTyped DEF FindGoal, Inv, TypeOK, kv, history

LEMMA AddToGoalInv ==
  ASSUME Inv, NEW w \in Workers, AddToGoal(w)
  PROVE  Inv'
<1>1. Moves(w) /\ StepOK(w)'
  BY DEF AddToGoal, Moves, StepOK, At, Go, Inv, TypeOK, Steps, ListSteps,
         ListKey
<1>2. PICK list \in {snap[w], mem[GoalsKey]} :
        /\ list[job[w].item] # None
        /\ Set(GoalsKey, [list EXCEPT ![job[w].item] = @ - job[w].delta])
  BY DEF AddToGoal
<1>3. list \in GoalList /\ job[w].item \in Goals /\ job[w].delta \in Int
  BY KeyTypes DEF AddToGoal, At, Inv, StepOK, TypeOK, Jobs
<1>4. list[job[w].item] - job[w].delta \in Int
  BY <1>2, <1>3 DEF GoalList
<1>5. [list EXCEPT ![job[w].item] = @ - job[w].delta] \in Value(GoalsKey)
  BY <1>3, <1>4, KeyTypes DEF GoalList
<1>6. DOMAIN mem' = Keys /\ \A k \in Keys : mem'[k] \in Value(k)
  BY <1>2, <1>5, SetTyped, KeyTypes
<1> QED BY <1>1, <1>6, MovesTyped DEF AddToGoal, Inv, TypeOK, history

LEMMA StepInv ==
  ASSUME Inv, NEW w \in Workers, Step(w)
  PROVE  Inv'
BY CheckCooldownInv, ReadQueueInv, AppendQueueInv, SendEventInv,
   StartCooldownInv, ReadListInv, SaveListInv, FindRedeemInv, UnlistRedeemInv,
   ReadBalanceInv, SetPointsInv, PutPointsInv, CapOfferInv, FindGoalInv,
   AddToGoalInv DEF Step

\* The other goroutines are left alone.
Only(w) ==
  \A x \in Workers \ {w} :
    pc'[x] = pc[x] /\ job'[x] = job[x] /\ snap'[x] = snap[x]

LEMMA StepOnly ==
  ASSUME Inv, NEW w \in Workers, Step(w)
  PROVE  Only(w)
<1> USE DEF Inv, TypeOK, Only, Go, Keep, Forget, Return
<1>1. CASE CheckCooldown(w) \/ ReadQueue(w) \/ AppendQueue(w) \/ SendEvent(w)
  BY <1>1 DEF CheckCooldown, ReadQueue, AppendQueue, SendEvent
<1>2. CASE StartCooldown(w) \/ ReadList(w) \/ SaveList(w)
  BY <1>2 DEF StartCooldown, ReadList, SaveList
<1>3. CASE FindRedeem(w) \/ UnlistRedeem(w) \/ ReadBalance(w)
  BY <1>3 DEF FindRedeem, UnlistRedeem, ReadBalance
<1>4. CASE SetPoints(w) \/ PutPoints(w) \/ CapOffer(w)
  BY <1>4 DEF SetPoints, PutPoints, CapOffer
<1>5. CASE FindGoal(w) \/ AddToGoal(w)
  BY <1>5 DEF FindGoal, AddToGoal
<1> QED BY <1>1, <1>2, <1>3, <1>4, <1>5 DEF Step

LEMMA StartOnly ==
  ASSUME Inv, NEW w \in Workers, NEW step, NEW j, Start(w, step, j),
         snap' = snap \/ \E v : Keep(w, v)
  PROVE  Only(w) /\ At(w, "idle") /\ pc'[w] = step /\ job'[w] = j
BY DEF Start, Inv, TypeOK, Only, Go, Keep

-----------------------------------------------------------------------------
(* So do the actions that start an operation, and the environment.         *)

LEMMA StartMoves ==
  ASSUME Inv, NEW w \in Workers, NEW step \in Steps, NEW j \in Jobs,
         Start(w, step, j), snap' = snap \/ \E v : Keep(w, v)
  PROVE  Moves(w) /\ pc'[w] = step /\ job'[w] = j
BY DEF Start, Moves, Go, Inv, TypeOK

LEMMA BudgetNames ==
  {"command", "round", "client", "restart", "failure"} = Budgets
BY DEF Budgets

LEMMA CommandRedeemInv ==
  ASSUME Inv, NEW w \in Workers, NEW u \in Users, NEW r \in Rewards,
         CommandRedeem(w, u, r)
  PROVE  Inv'
<1> DEFINE j == [kind |-> "redeem", users |-> {u}, user |-> u, item |-> r,
                 delta |-> -Price[r], when |-> budget["command"]]
<1>1. j \in Jobs
  <2>1. budget["command"] \in Nat /\ -Price[r] \in Int
    BY BudgetNames, DataAssumption DEF Inv, TypeOK
  <2> QED BY <2>1 DEF Jobs
<1>2. Moves(w) /\ pc'[w] = "cooldown" /\ job'[w] = j
  BY <1>1, StartMoves DEF CommandRedeem, Steps
<1>3. StepOK(w)'
  BY <1>2 DEF StepOK
<1>4. budget' \in [Budgets -> Nat]
  BY SpendTyped, BudgetNames DEF CommandRedeem
<1> QED BY <1>2, <1>3, <1>4, MovesTyped
        DEF CommandRedeem, Inv, TypeOK, kv, history

LEMMA RPCCreateInv ==
  ASSUME Inv, NEW w \in Workers, NEW u \in Users, NEW r \in Rewards,
         RPCCreate(w, u, r)
  PROVE  Inv'
<1> DEFINE j == [kind |-> "create", users |-> {u}, user |-> u, item |-> r,
                 delta |-> 0, when |-> budget["command"]]
<1>1. j \in Jobs
  <2>1. budget["command"] \in Nat
    BY BudgetNames DEF Inv, TypeOK
  <2> QED BY <2>1 DEF Jobs
<1>2. Moves(w) /\ pc'[w] = "append" /\ job'[w] = j
  BY <1>1, StartMoves DEF RPCCreate, Steps, ListSteps
<1>3. StepOK(w)'
  BY <1>2 DEF StepOK
<1>4. budget' \in [Budgets -> Nat]
  BY SpendTyped, BudgetNames DEF RPCCreate
<1> QED BY <1>2, <1>3, <1>4, MovesTyped DEF RPCCreate, Inv, TypeOK, kv, history

LEMMA RPCRemoveInv ==
  ASSUME Inv, NEW w \in Workers, NEW r, RPCRemove(w, r)
  PROVE  Inv'
<1> DEFINE j == [kind |-> "remove", users |-> {r.user}, user |-> r.user,
                 item |-> r.reward, delta |-> 0, when |-> r.when]
<1>1. r \in Redeem
  BY KeyTypes DEF RPCRemove, Inv, TypeOK
<1>2. j \in Jobs
  BY <1>1 DEF Redeem, Jobs
<1>3. Moves(w) /\ pc'[w] = "find" /\ job'[w] = j
  BY <1>2, StartMoves DEF RPCRemove, Steps
<1>4. StepOK(w)'
  BY <1>1, <1>3 DEF StepOK, Redeem
<1>5. budget' \in [Budgets -> Nat]
  BY SpendTyped, BudgetNames DEF RPCRemove
<1> QED BY <1>3, <1>4, <1>5, MovesTyped DEF RPCRemove, Inv, TypeOK, kv, history

LEMMA CommandContributeInv ==
  ASSUME Inv, NEW w \in Workers, NEW u \in Users, NEW g \in Goals,
         NEW p \in Offers, CommandContribute(w, u, g, p)
  PROVE  Inv'
<1> DEFINE j == [kind |-> "contribute", users |-> {u}, user |-> u, item |-> g,
                 delta |-> -p, when |-> budget["command"]]
<1>1. j \in Jobs
  <2>1. budget["command"] \in Nat /\ -p \in Int
    BY BudgetNames, DataAssumption DEF Inv, TypeOK
  <2> QED BY <2>1 DEF Jobs
<1>2. Moves(w) /\ pc'[w] = "offer" /\ job'[w] = j
  BY <1>1, StartMoves DEF CommandContribute, Steps
<1>3. mem[GoalsKey] \in GoalList /\ mem[GoalsKey][g] \in Int
  <2>1. mem[GoalsKey] \in GoalList
    BY KeyTypes DEF Inv, TypeOK
  <2> QED BY <2>1 DEF CommandContribute, GoalList
<1>4. snap'[w] = mem[GoalsKey]
  BY DEF CommandContribute, Keep, Inv, TypeOK
<1>5. StepOK(w)'
  BY <1>2, <1>3, <1>4 DEF StepOK
<1>6. budget' \in [Budgets -> Nat]
  BY SpendTyped, BudgetNames DEF CommandContribute
<1> QED BY <1>2, <1>5, <1>6, MovesTyped
        DEF CommandContribute, Inv, TypeOK, kv, history

LEMMA AwardRoundInv ==
  ASSUME Inv, NEW U \in SUBSET Users, AwardRound(U)
  PROVE  Inv'
<1> DEFINE j == [kind |-> "award", users |-> U, user |-> None, item |-> None,
                 delta |-> Award, when |-> 0]
<1>2. j \in Jobs /\ j.kind = "award"
  BY DataAssumption DEF Jobs
<1>3. Ticker \in Workers /\ "balance" \in Steps
  BY DEF Workers, Steps
<1>4. Moves(Ticker) /\ pc'[Ticker] = "balance" /\ job'[Ticker] = j
  BY <1>2, <1>3, StartMoves DEF AwardRound
<1>5. StepOK(Ticker)'
  BY <1>2, <1>4 DEF StepOK
<1>6. budget' \in [Budgets -> Nat]
  BY SpendTyped, BudgetNames DEF AwardRound
<1> QED BY <1>3, <1>4, <1>5, <1>6, MovesTyped
        DEF AwardRound, Inv, TypeOK, kv, history

LEMMA StepOKSame ==
  ASSUME Inv, UNCHANGED threads
  PROVE  /\ \A w \in Workers : StepOK(w)'
         /\ pc' \in [Workers -> Steps] /\ job' \in [Workers -> Jobs]
         /\ DOMAIN snap' = Workers
BY OthersKeep DEF Inv, TypeOK, threads

LEMMA UpdateInv ==
  ASSUME Inv, NEW k \in Keys, Update(k)
  PROVE  Inv'
<1>1. echo[k] \in Seq(Value(k)) /\ echo[k] # <<>>
  BY DEF Update, Inv, TypeOK
<1>2. Head(echo[k]) \in Value(k) /\ Tail(echo[k]) \in Seq(Value(k))
  BY <1>1
<1>3. DOMAIN mem' = Keys /\ \A i \in Keys : mem'[i] \in Value(i)
  BY <1>2, SetTyped DEF Update
<1>4. DOMAIN echo' = Keys /\ \A i \in Keys : echo'[i] \in Seq(Value(i))
  BY <1>2 DEF Update, Inv, TypeOK
<1> QED BY <1>3, <1>4, StepOKSame DEF Update, Inv, TypeOK, history

LEMMA ClientSetsPointsInv ==
  ASSUME Inv, NEW u \in Users, NEW p \in ClientPoints, ClientSetsPoints(u, p)
  PROVE  Inv'
<1>1. p \in Int
  BY DataAssumption
<1>2. ledger' \in [Users -> Int] /\ budget' \in [Budgets -> Nat]
  BY <1>1, SpendTyped, BudgetNames DEF ClientSetsPoints, Inv, TypeOK
<1>3. u \in Keys /\ p \in Value(u) /\ Write(u, p)
  BY <1>1, KeyTypes DEF ClientSetsPoints
<1>4. crossed' \subseteq Users
  BY CrossTyped DEF ClientSetsPoints
<1> QED BY <1>2, <1>3, <1>4, WriteTyped, StepOKSame
        DEF ClientSetsPoints, Inv, TypeOK

LEMMA ClientSavesGoalsInv ==
  ASSUME Inv, NEW list \in ClientGoals, ClientSavesGoals(list)
  PROVE  Inv'
<1>1. budget' \in [Budgets -> Nat]
  BY SpendTyped, BudgetNames DEF ClientSavesGoals
<1>2. GoalsKey \in Keys /\ list \in Value(GoalsKey) /\ Write(GoalsKey, list)
  BY DataAssumption, KeyTypes DEF ClientSavesGoals
<1> QED BY <1>1, <1>2, WriteTyped, StepOKSame
        DEF ClientSavesGoals, Inv, TypeOK, history

LEMMA CooldownOverInv ==
  ASSUME Inv, NEW r \in Rewards, CooldownOver(r)
  PROVE  Inv'
BY StepOKSame DEF CooldownOver, Inv, TypeOK, kv, history

LEMMA RestartInv ==
  ASSUME Inv, Restart
  PROVE  Inv'
<1>1. /\ pc' \in [Workers -> Steps] /\ job' \in [Workers -> Jobs]
      /\ DOMAIN snap' = Workers
  BY DEF Restart, Steps, Jobs, NoJob
<1>2. \A w \in Workers : StepOK(w)'
  BY DEF Restart, StepOK, NoJob
<1>3. /\ DOMAIN mem' = Keys /\ DOMAIN store' = Keys /\ DOMAIN echo' = Keys
      /\ \A k \in Keys : /\ mem'[k] \in Value(k) /\ store'[k] \in Value(k)
                         /\ echo'[k] \in Seq(Value(k))
  BY DEF Restart, Inv, TypeOK
<1>4. ledger' \in [Users -> Int]
  BY KeyTypes DEF Restart, Inv, TypeOK
<1>5. budget' \in [Budgets -> Nat]
  BY SpendTyped, BudgetNames DEF Restart
<1> QED BY <1>1, <1>2, <1>3, <1>4, <1>5 DEF Restart, Inv, TypeOK

LEMMA NextInv == Inv /\ [Next]_vars => Inv'
<1> SUFFICES ASSUME Inv, [Next]_vars PROVE Inv'
  OBVIOUS
<1>1. ASSUME NEW w \in Handlers, Begin(w) PROVE Inv'
  BY <1>1, CommandRedeemInv, RPCCreateInv, RPCRemoveInv, CommandContributeInv
  DEF Begin, Workers
<1>2. ASSUME NEW w \in Workers, Step(w) PROVE Inv'
  BY <1>2, StepInv
<1>3. ASSUME NEW k \in Keys, Update(k) PROVE Inv'
  BY <1>3, UpdateInv
<1>4. CASE Environment
  BY <1>4, AwardRoundInv, ClientSetsPointsInv, ClientSavesGoalsInv,
     CooldownOverInv, RestartInv
  DEF Environment
<1>5. CASE UNCHANGED vars
  BY <1>5, StepOKSame DEF vars, kv, threads, history, Inv, TypeOK
<1> QED BY <1>1, <1>2, <1>3, <1>4, <1>5 DEF Next

\* Every variable keeps its type, and a goroutine at some point of the code
\* holds what the code expects there, in every behaviour.
THEOREM Typing == Spec => [](TypeOK /\ \A w \in Workers : StepOK(w))
<1>1. Init => Inv
  BY InitInv
<1>2. Inv /\ [Next]_vars => Inv'
  BY NextInv
<1> QED BY <1>1, <1>2, PTL DEF Spec, Inv

-----------------------------------------------------------------------------
(* The two copies of a key.                                                *)

\* Agreement is not inductive: while pushes are pending, the memory copy may
\* be any older value, and what matters is that the last push is the value in
\* the database.
InSync(k) ==
  IF echo[k] # <<>>
  THEN echo[k][Len(echo[k])] = store[k]
  ELSE Unfinished(k) \/ k \in unsaved \/ mem[k] = store[k]

InSyncInv == \A k \in Keys : InSync(k)

LEMMA InSyncAgreement == InSyncInv => Agreement
BY DEF InSyncInv, InSync, Agreement, Settled

LEMMA InitInSync == Init => InSyncInv
BY DEF Init, InSyncInv, InSync

-----------------------------------------------------------------------------
(* What an access to a key does to it.                                     *)

LEMMA SameInSync ==
  ASSUME NEW k \in Keys, InSync(k), mem'[k] = mem[k], store'[k] = store[k],
         echo'[k] = echo[k], k \in unsaved => k \in unsaved',
         Unfinished(k) => Unfinished(k)' \/ k \in unsaved'
  PROVE  InSync(k)'
BY DEF InSync

LEMMA SetInSync ==
  ASSUME NEW k \in Keys, InSync(k), Unfinished(k)', store' = store, echo' = echo
  PROVE  InSync(k)'
BY DEF InSync

LEMMA WriteInSync ==
  ASSUME Inv, NEW k \in Keys, NEW v \in Value(k), Write(k, v)
  PROVE  /\ InSync(k)'
         /\ \A i \in Keys \ {k} :
              /\ store'[i] = store[i] /\ echo'[i] = echo[i]
              /\ i \in unsaved => i \in unsaved'
<1>1. echo'[k] = Append(echo[k], v) /\ store'[k] = v
  BY DEF Write, Inv, TypeOK
<1>2. echo[k] \in Seq(Value(k))
  BY DEF Inv, TypeOK
<1>3. echo'[k] # <<>> /\ echo'[k][Len(echo'[k])] = v
  BY <1>1, <1>2
<1> QED BY <1>1, <1>3 DEF InSync, Write, Inv, TypeOK

\* Only w moves, so another goroutine stays in the middle of its change.
LEMMA StaysUnfinished ==
  ASSUME Inv, NEW w \in Workers, Only(w), NEW k \in Keys, Unfinished(k),
         Changing(w, k) => Changing(w, k)'
  PROVE  Unfinished(k)'
<1>1. PICK x \in Workers : Changing(x, k)
  BY DEF Unfinished
<1>2. CASE x = w
  BY <1>1, <1>2 DEF Unfinished
<1>3. CASE x # w
  <2>1. pc'[x] = pc[x] /\ job'[x] = job[x]
    BY <1>3 DEF Only
  <2>2. Changing(x, k)'
    BY <1>1, <2>1 DEF Changing
  <2> QED BY <2>2 DEF Unfinished
<1> QED BY <1>2, <1>3

\* A step that touches neither copy and that no change of w is lost by.
LEMMA QuietInSync ==
  ASSUME Inv, InSyncInv, NEW w \in Workers, Only(w), UNCHANGED kv,
         \A k \in Keys : Changing(w, k) => Changing(w, k)'
  PROVE  InSyncInv'
BY SameInSync, StaysUnfinished DEF kv, InSyncInv

\* Whatever w has not changed is as far behind as before.
LEMMA OtherKeyInSync ==
  ASSUME Inv, InSyncInv, NEW w \in Workers, Only(w), NEW k \in Keys,
         mem'[k] = mem[k], store'[k] = store[k], echo'[k] = echo[k],
         k \in unsaved => k \in unsaved', ~Changing(w, k)
  PROVE  InSync(k)'
BY SameInSync, StaysUnfinished DEF InSyncInv

\* The end of a change: the whole of it is written or none of it.
LEMMA WrittenInSync ==
  ASSUME Inv, InSyncInv, NEW w \in Workers, Only(w), NEW k \in Keys,
         NEW v \in Value(k), Write(k, v), mem' = mem,
         \A i \in Keys \ {k} : ~Changing(w, i)
  PROVE  InSyncInv'
<1> SUFFICES ASSUME NEW i \in Keys PROVE InSync(i)'
  BY DEF InSyncInv
<1>1. CASE i = k
  BY <1>1, WriteInSync
<1>2. CASE i # k
  BY <1>2, WriteInSync, OtherKeyInSync
<1> QED BY <1>1, <1>2

LEMMA RefusedInSync ==
  ASSUME Inv, InSyncInv, NEW w \in Workers, Only(w), NEW k \in Keys,
         Refuse(k), mem' = mem, \A i \in Keys \ {k} : ~Changing(w, i)
  PROVE  InSyncInv'
<1> SUFFICES ASSUME NEW i \in Keys PROVE InSync(i)'
  BY DEF InSyncInv
<1>1. CASE i = k
  BY <1>1 DEF Refuse, InSyncInv, InSync
<1>2. CASE i # k
  BY <1>2, OtherKeyInSync DEF Refuse
<1> QED BY <1>1, <1>2

\* The beginning of a change.
LEMMA ChangedInSync ==
  ASSUME Inv, InSyncInv, NEW w \in Workers, Only(w), NEW k \in Keys,
         NEW v \in Value(k), Set(k, v), UNCHANGED <<store, echo, unsaved>>,
         Changing(w, k)', \A i \in Keys \ {k} : ~Changing(w, i)
  PROVE  InSyncInv'
<1> SUFFICES ASSUME NEW i \in Keys PROVE InSync(i)'
  BY DEF InSyncInv
<1>1. CASE i = k
  BY <1>1, SetInSync DEF Unfinished, InSyncInv
<1>2. CASE i # k
  BY <1>2, OtherKeyInSync DEF Set, Inv, TypeOK
<1> QED BY <1>1, <1>2

-----------------------------------------------------------------------------
(* The steps of a goroutine.                                               *)

LEMMA QuietSteps ==
  ASSUME Inv, InSyncInv, NEW w \in Workers,
         \/ CheckCooldown(w) \/ ReadQueue(w) \/ StartCooldown(w) \/ ReadList(w)
         \/ FindRedeem(w) \/ ReadBalance(w) \/ CapOffer(w) \/ FindGoal(w)
  PROVE  InSyncInv'
<1>1. Only(w)
  BY StepOnly DEF Step
<1>2. UNCHANGED kv
  BY DEF CheckCooldown, ReadQueue, StartCooldown, ReadList, FindRedeem,
         ReadBalance, CapOffer, FindGoal
<1>3. ASSUME NEW k \in Keys, Changing(w, k) PROVE Changing(w, k)'
  <2>1. CASE StartCooldown(w) \/ ReadList(w)
    <3>1. job' = job /\ pc[w] \in {"heat", "marshal"} /\ pc'[w] \in {"marshal", "save"}
      BY <2>1 DEF StartCooldown, ReadList, At, Go, Inv, TypeOK
    <3>2. pc[w] = "heat" => job[w].kind # "contribute"
      BY DEF Inv, StepOK
    <3> QED BY <1>3, <3>1, <3>2 DEF Changing
  <2>2. CASE \/ CheckCooldown(w) \/ ReadQueue(w) \/ FindRedeem(w)
             \/ ReadBalance(w) \/ CapOffer(w) \/ FindGoal(w)
    <3>1. pc[w] \in {"cooldown", "append", "find", "balance", "offer", "findGoal"}
      BY <2>2 DEF CheckCooldown, ReadQueue, FindRedeem, ReadBalance, CapOffer,
                  FindGoal, At
    <3> QED BY <1>3, <3>1 DEF Changing
  <2> QED BY <2>1, <2>2
<1> QED BY <1>1, <1>2, <1>3, QuietInSync

LEMMA ChangeSteps ==
  ASSUME Inv, InSyncInv, NEW w \in Workers,
         AppendQueue(w) \/ UnlistRedeem(w) \/ AddToGoal(w) \/ SetPoints(w)
  PROVE  InSyncInv'
<1>1. Only(w) /\ Inv'
  BY StepOnly, StepInv DEF Step
<1>2. pc[w] \in {"publish", "unlist", "addGoal", "setPoints"}
  BY DEF AppendQueue, UnlistRedeem, AddToGoal, SetPoints, At
<1>3. \A i \in Keys : ~Changing(w, i)
  BY <1>2 DEF Changing
<1>4. CASE AppendQueue(w) \/ UnlistRedeem(w)
  <2>1. PICK v : Set(QueueKey, v)
    BY <1>4 DEF AppendQueue, UnlistRedeem
  <2>2. v \in Value(QueueKey)
    BY <1>1, <2>1, KeyTypes DEF Set, Inv, TypeOK
  <2>3. pc'[w] \in {"event", "marshal"} /\ job' = job
        /\ job[w].kind \in {"redeem", "create", "remove"}
    BY <1>4 DEF AppendQueue, UnlistRedeem, At, Go, Inv, TypeOK, StepOK
  <2>4. Changing(w, QueueKey)'
    BY <2>3, KeysAssumption DEF Changing
  <2> QED BY <1>1, <1>3, <1>4, <2>1, <2>2, <2>4, ChangedInSync, KeyTypes
          DEF AppendQueue, UnlistRedeem
<1>5. CASE AddToGoal(w)
  <2>1. PICK v : Set(GoalsKey, v)
    BY <1>5 DEF AddToGoal
  <2>2. v \in Value(GoalsKey)
    BY <1>1, <2>1, KeyTypes DEF Set, Inv, TypeOK
  <2>3. pc'[w] = "marshal" /\ job' = job /\ job[w].kind = "contribute"
    BY <1>5 DEF AddToGoal, At, Go, Inv, TypeOK, StepOK
  <2>4. Changing(w, GoalsKey)'
    BY <2>3, KeysAssumption DEF Changing
  <2> QED BY <1>1, <1>3, <1>5, <2>1, <2>2, <2>4, ChangedInSync, KeyTypes
          DEF AddToGoal
<1>6. CASE SetPoints(w)
  <2>1. job[w].user \in Users /\ snap[w] \in Int
    BY <1>6 DEF SetPoints, At, Inv, StepOK
  <2>2. job[w].user \in Keys /\ snap[w] \in Value(job[w].user)
    BY <2>1, KeyTypes
  <2>3. pc'[w] = "putPoints" /\ job' = job
    BY <1>6 DEF SetPoints, Go, Inv, TypeOK
  <2>4. Changing(w, job[w].user)'
    BY <2>1, <2>3, KeysAssumption DEF Changing
  <2> QED BY <1>1, <1>3, <1>6, <2>2, <2>4, ChangedInSync DEF SetPoints
<1> QED BY <1>4, <1>5, <1>6

LEMMA SavingSteps ==
  ASSUME Inv, InSyncInv, NEW w \in Workers,
         SendEvent(w) \/ SaveList(w) \/ PutPoints(w)
  PROVE  InSyncInv'
<1>1. Only(w)
  BY StepOnly DEF Step
<1>2. CASE SendEvent(w)
  <2>1. pc[w] = "event" /\ job[w].kind \in {"redeem", "create"} /\ mem' = mem
    BY <1>2 DEF SendEvent, At, Inv, StepOK
  <2>2. CASE Go(w, "heat") /\ UNCHANGED <<job, snap, unsaved, budget, store, echo>>
    <3>1. pc'[w] = "heat" /\ job'[w] = job[w]
      BY <2>2 DEF Go, Inv, TypeOK
    <3>2. \A k \in Keys : Changing(w, k) => Changing(w, k)'
      BY <2>1, <3>1 DEF Changing
    <3> QED BY <1>1, <2>1, <2>2, <3>2, QuietInSync DEF kv
  <2>3. CASE Refuse(QueueKey)
    <3>1. \A i \in Keys \ {QueueKey} : ~Changing(w, i)
      BY <2>1 DEF Changing
    <3> QED BY <1>1, <2>1, <2>3, <3>1, RefusedInSync, KeyTypes
  <2> QED BY <1>2, <2>2, <2>3 DEF SendEvent
<1>3. CASE SaveList(w)
  <2> DEFINE k == ListKey(w)
  <2>1. /\ k \in Keys /\ snap[w] \in Value(k) /\ pc[w] = "save" /\ mem' = mem
        /\ job[w].kind \in {"redeem", "create", "remove", "contribute"}
    BY <1>3, ListKeyTypes DEF SaveList, At, Inv, StepOK
  <2>2. \A i \in Keys \ {k} : ~Changing(w, i)
    BY <2>1, KeysAssumption DEF Changing, ListKey
  <2>3. Write(k, snap[w]) \/ Refuse(k)
    BY <1>3 DEF SaveList
  <2> HIDE DEF k
  <2> QED BY <1>1, <2>1, <2>2, <2>3, WrittenInSync, RefusedInSync
<1>4. CASE PutPoints(w)
  <2> DEFINE k == job[w].user
  <2>1. /\ k \in Keys /\ k \in Users /\ snap[w] \in Value(k)
        /\ pc[w] = "putPoints" /\ mem' = mem
    BY <1>4, KeyTypes DEF PutPoints, At, Inv, StepOK
  <2>2. \A i \in Keys \ {k} : ~Changing(w, i)
    BY <2>1 DEF Changing
  <2>3. Write(k, snap[w]) \/ Refuse(k)
    BY <1>4 DEF PutPoints
  <2> HIDE DEF k
  <2> QED BY <1>1, <2>1, <2>2, <2>3, WrittenInSync, RefusedInSync
<1> QED BY <1>2, <1>3, <1>4

-----------------------------------------------------------------------------
(* The other actions.                                                      *)

LEMMA StartsInSync ==
  ASSUME Inv, InSyncInv, NEW w \in Workers, NEW step \in {"cooldown", "append",
         "find", "offer", "balance"}, NEW j, Start(w, step, j),
         snap' = snap \/ \E v : Keep(w, v), UNCHANGED kv
  PROVE  InSyncInv'
<1>1. Only(w) /\ pc[w] = "idle"
  BY StartOnly DEF At
<1>2. \A k \in Keys : ~Changing(w, k)
  BY <1>1 DEF Changing
<1> QED BY <1>1, <1>2, QuietInSync

LEMMA UpdateInSync ==
  ASSUME Inv, InSyncInv, NEW k \in Keys, Update(k)
  PROVE  InSyncInv'
<1>1. \A i \in Keys : Unfinished(i) => Unfinished(i)'
  BY DEF Update, threads, Unfinished, Changing
<1>2. ASSUME NEW i \in Keys \ {k} PROVE InSync(i)'
  BY <1>1, SameInSync DEF Update, Set, Inv, TypeOK, InSyncInv
<1>3. InSync(k)'
  <2>1. /\ echo[k] \in Seq(Value(k)) /\ echo[k] # <<>>
        /\ echo[k][Len(echo[k])] = store[k]
    BY DEF Update, Inv, TypeOK, InSyncInv, InSync
  <2>2. /\ echo'[k] = Tail(echo[k]) /\ mem'[k] = Head(echo[k])
        /\ store'[k] = store[k]
    BY DEF Update, Set, Inv, TypeOK
  <2>3. CASE Tail(echo[k]) = <<>>
    <3>1. Len(echo[k]) \in Nat /\ Len(Tail(echo[k])) = Len(echo[k]) - 1
      BY <2>1
    <3>2. Len(Tail(echo[k])) = Len(<<>>)
      BY <2>3, Zenon
    <3>3. Len(echo[k]) = 1
      BY <3>1, <3>2
    <3>4. Head(echo[k]) = echo[k][1]
      BY <2>1
    <3>5. mem'[k] = store'[k] /\ echo'[k] = <<>>
      BY <2>1, <2>2, <2>3, <3>3, <3>4
    <3> QED BY <3>5 DEF InSync
  <2>4. CASE Tail(echo[k]) # <<>>
    <3>1. Tail(echo[k])[Len(Tail(echo[k]))] = echo[k][Len(echo[k])]
      BY <2>1, <2>4
    <3> QED BY <2>1, <2>2, <2>4, <3>1 DEF InSync
  <2> QED BY <2>3, <2>4
<1> QED BY <1>2, <1>3 DEF InSyncInv

LEMMA ClientInSync ==
  ASSUME Inv, InSyncInv, NEW k \in Keys, NEW v \in Value(k), Write(k, v),
         mem' = mem, UNCHANGED threads
  PROVE  InSyncInv'
<1>1. \A i \in Keys : Unfinished(i) => Unfinished(i)'
  BY DEF threads, Unfinished, Changing
<1>2. ASSUME NEW i \in Keys \ {k} PROVE InSync(i)'
  BY <1>1, SameInSync, WriteInSync DEF InSyncInv
<1> QED BY <1>2, WriteInSync DEF InSyncInv

LEMMA UntouchedInSync ==
  ASSUME InSyncInv, UNCHANGED <<kv, threads>>
  PROVE  InSyncInv'
BY SameInSync DEF InSyncInv, kv, threads, Unfinished, Changing

LEMMA RestartInSync ==
  ASSUME Inv, Restart
  PROVE  InSyncInv'
BY DEF Restart, Inv, TypeOK, InSyncInv, InSync

LEMMA NextInSync == Inv /\ InSyncInv /\ [Next]_vars => InSyncInv'
<1> SUFFICES ASSUME Inv, InSyncInv, [Next]_vars PROVE InSyncInv'
  OBVIOUS
<1>1. ASSUME NEW w \in Handlers, Begin(w) PROVE InSyncInv'
  <2>1. w \in Workers
    BY DEF Workers
  <2>2. /\ UNCHANGED kv /\ (snap' = snap \/ \E v : Keep(w, v))
        /\ \E step \in {"cooldown", "append", "find", "offer"} :
             \E j : Start(w, step, j)
    BY <1>1 DEF Begin, CommandRedeem, RPCCreate, RPCRemove, CommandContribute
  <2> QED BY <2>1, <2>2, StartsInSync
<1>2. ASSUME NEW w \in Workers, Step(w) PROVE InSyncInv'
  BY <1>2, QuietSteps, ChangeSteps, SavingSteps DEF Step
<1>3. ASSUME NEW k \in Keys, Update(k) PROVE InSyncInv'
  BY <1>3, UpdateInSync
<1>4. ASSUME NEW U \in SUBSET Users, AwardRound(U) PROVE InSyncInv'
  BY <1>4, StartsInSync DEF AwardRound, Workers
<1>5. ASSUME NEW u \in Users, NEW p \in ClientPoints, ClientSetsPoints(u, p)
      PROVE  InSyncInv'
  <2>1. u \in Keys /\ p \in Value(u)
    BY DataAssumption, KeyTypes
  <2> QED BY <1>5, <2>1, ClientInSync DEF ClientSetsPoints
<1>6. ASSUME NEW list \in ClientGoals, ClientSavesGoals(list) PROVE InSyncInv'
  <2>1. GoalsKey \in Keys /\ list \in Value(GoalsKey)
    BY DataAssumption, KeyTypes
  <2> QED BY <1>6, <2>1, ClientInSync DEF ClientSavesGoals
<1>7. ASSUME NEW r \in Rewards, CooldownOver(r) PROVE InSyncInv'
  BY <1>7, UntouchedInSync DEF CooldownOver
<1>8. CASE Restart
  BY <1>8, RestartInSync
<1>9. CASE UNCHANGED vars
  BY <1>9, UntouchedInSync DEF vars, kv, threads
<1> QED BY <1>1, <1>2, <1>3, <1>4, <1>5, <1>6, <1>7, <1>8, <1>9
        DEF Next, Environment

\* However commands, RPCs, awards, other clients, pushes, refusals and
\* restarts interleave, the memory copy of a key for which nothing is under
\* way is the value in the database, unless the last save of it was refused.
THEOREM CopiesAgree == Spec => []Agreement
<1>1. Init => Inv /\ InSyncInv
  BY InitInv, InitInSync
<1>2. Inv /\ InSyncInv /\ [Next]_vars => Inv' /\ InSyncInv'
  BY NextInv, NextInSync
<1>3. InSyncInv => Agreement
  BY InSyncAgreement
<1> QED BY <1>1, <1>2, <1>3, PTL DEF Spec
=============================================================================
