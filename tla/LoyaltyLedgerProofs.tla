------------------------ MODULE LoyaltyLedgerProofs ------------------------
(***************************************************************************)
(* The loyalty manager implements LoyaltyLedger, for any number of         *)
(* viewers, rewards, goals and goroutines and with every interleaving,     *)
(* refusal and restart: whatever happens to the balances, the queue and    *)
(* the goals, no order is charged, listed, published or credited twice,    *)
(* out of order, or with other points than it was made with.               *)
(***************************************************************************)
EXTENDS LoyaltyRefinement, LoyaltyBalanceProofs

-----------------------------------------------------------------------------
(* Who works on which order.                                               *)

Ordering == {"redeem", "create", "contribute"}

\* An order has one payer, who pays once, and a time that nobody else's order
\* has; only the points loop awards points, to each viewer once a round; and a
\* redeem that is being removed was in the queue.
Ordered(w) ==
  /\ job[w].kind \in Ordering => budget["command"] < job[w].when
  /\ job[w].kind \in {"redeem", "contribute"} =>
       /\ job[w].users \subseteq {job[w].user}
       /\ pc[w] \in {"setPoints", "putPoints"} => job[w].users = {}
  /\ job[w].kind = "award" => /\ w = Ticker /\ job[w].when = 0
                              /\ At(w, "setPoints") => job[w].user \notin job[w].users
  /\ w = Ticker => job[w].kind \in {"none", "award"}
  /\ At(w, "unlist") => RedeemOf(w) \in snap[w]

Distinct ==
  \A w, x \in Workers :
    w # x /\ job[w].kind \in Ordering /\ job[x].kind \in Ordering
      => job[w].when # job[x].when

OrderInv == Distinct /\ \A w \in Workers : Ordered(w)

LEMMA InitOrders == Init => OrderInv
BY DEF Init, OrderInv, Distinct, Ordered, Ordering, NoJob, At

LEMMA CommandsLeft ==
  ASSUME Inv
  PROVE  budget["command"] \in Nat /\ \A w \in Workers : job[w].when \in Nat
BY BudgetNames DEF Inv, TypeOK, Jobs

\* The goroutine w goes on with its order, gives it up or begins a new one.
LEMMA MoverOrdered ==
  ASSUME Inv, Inv', OrderInv, NEW w \in Workers, Only(w), Ordered(w)',
         budget'["command"] <= budget["command"],
         \/ job'[w].kind \notin Ordering
         \/ job[w].kind \in Ordering /\ job'[w].when = job[w].when
         \/ job'[w].when = budget["command"]
  PROVE  OrderInv'
<1>1. /\ budget["command"] \in Nat /\ budget'["command"] \in Nat
      /\ \A x \in Workers : job[x].when \in Nat /\ job'[x].when \in Nat
  BY CommandsLeft, BudgetNames DEF Inv, TypeOK, Jobs
<1>2. \A x \in Workers \ {w} : Ordered(x)'
  BY <1>1 DEF OrderInv, Ordered, Only, At, RedeemOf
<1>3. \A x \in Workers \ {w} :
        job'[w].kind \in Ordering /\ job'[x].kind \in Ordering
          => job'[w].when # job'[x].when
  BY <1>1 DEF OrderInv, Ordered, Distinct, Only
<1>4. Distinct'
  BY <1>3 DEF OrderInv, Distinct, Only
<1> QED BY <1>2, <1>4 DEF OrderInv

LEMMA ReturnOrdered ==
  ASSUME Inv, NEW w \in Workers, Return(w)
  PROVE  Ordered(w)' /\ job'[w].kind \notin Ordering
BY DEF Return, Go, Ordered, Ordering, NoJob, At, Inv, TypeOK

\* Refusals do not use up commands.
LEMMA RefuseCounts ==
  ASSUME Inv, NEW k, Refuse(k)
  PROVE  /\ budget'["command"] = budget["command"]
         /\ budget'["restart"] = budget["restart"]
         /\ budget["failure"] > 0 /\ budget'["failure"] = budget["failure"] - 1
BY BudgetNames DEF Refuse, Spend, Inv, TypeOK

LEMMA StepOrders ==
  ASSUME Inv, OrderInv, NEW w \in Workers, Step(w)
  PROVE  OrderInv'
<1>1. Only(w) /\ Inv' /\ Ordered(w) /\ job[w] \in Jobs
  BY StepOnly, StepInv DEF OrderInv, Inv, TypeOK
<1>3. budget'["command"] = budget["command"]
  <2>1. budget' = budget \/ \E k : Refuse(k)
    BY DEF Step, CheckCooldown, ReadQueue, AppendQueue, SendEvent,
       StartCooldown, ReadList, SaveList, FindRedeem, UnlistRedeem,
       ReadBalance, SetPoints, PutPoints, CapOffer, FindGoal, AddToGoal
  <2> QED BY <2>1, RefuseCounts
<1>2. budget'["command"] <= budget["command"]
  BY <1>3, CommandsLeft
<1>4. CASE Return(w)
  BY <1>1, <1>2, <1>4, ReturnOrdered, MoverOrdered
<1>5. ASSUME job' = job, Ordered(w)' PROVE OrderInv'
  BY <1>1, <1>2, <1>5, MoverOrdered DEF Ordering
<1>6. CASE ~Return(w) /\ (CheckCooldown(w) \/ ReadQueue(w) \/ AppendQueue(w)
             \/ SendEvent(w) \/ StartCooldown(w) \/ ReadList(w) \/ SaveList(w)
             \/ UnlistRedeem(w) \/ FindGoal(w) \/ AddToGoal(w) \/ PutPoints(w))
  <2>1. /\ job' = job
        /\ pc'[w] \notin {"setPoints", "putPoints", "unlist"}
    BY <1>6 DEF CheckCooldown, ReadQueue, AppendQueue, SendEvent,
       StartCooldown, ReadList, SaveList, UnlistRedeem, FindGoal, AddToGoal,
       PutPoints, Go, Inv, TypeOK
  <2>2. Ordered(w)'
    BY <1>1, <1>3, <2>1 DEF Ordered, At
  <2> QED BY <1>5, <2>1, <2>2
<1>7. CASE ~Return(w) /\ FindRedeem(w)
  <2>1. /\ job' = job /\ pc'[w] = "unlist" /\ job[w].kind = "remove"
        /\ snap'[w] = mem[QueueKey] /\ RedeemOf(w) \in mem[QueueKey]
    BY <1>7 DEF FindRedeem, At, Go, Keep, Inv, TypeOK, StepOK
  <2>2. Ordered(w)'
    BY <1>1, <1>3, <2>1 DEF Ordered, At, RedeemOf, Ordering
  <2> QED BY <1>5, <2>1, <2>2
<1>8. CASE SetPoints(w)
  <2>1. job' = job /\ pc[w] = "setPoints" /\ pc'[w] = "putPoints"
    BY <1>8 DEF SetPoints, At, Go, Inv, TypeOK
  <2>2. Ordered(w)'
    BY <1>1, <1>3, <2>1 DEF Ordered, At
  <2> QED BY <1>5, <2>1, <2>2
<1>9. CASE ReadBalance(w)
  <2>1. PICK u \in job[w].users :
          job' = [job EXCEPT ![w].user = u, ![w].users = @ \ {u}]
    BY <1>9 DEF ReadBalance
  <2>2. job'[w] = [job[w] EXCEPT !.user = u, !.users = @ \ {u}]
    BY <2>1 DEF Inv, TypeOK
  <2>3. /\ job'[w].kind = job[w].kind /\ job'[w].when = job[w].when
        /\ job'[w].user = u /\ job'[w].users = job[w].users \ {u}
        /\ pc'[w] = "setPoints"
    BY <1>1, <1>9, <2>2 DEF Jobs, ReadBalance, Go, Inv, TypeOK
  <2>4. Ordered(w)'
    BY <1>1, <1>3, <2>3 DEF Ordered, At
  <2> QED BY <1>1, <1>2, <2>3, <2>4, MoverOrdered
<1>10. CASE CapOffer(w)
  <2>1. PICK d : job' = [job EXCEPT ![w].delta = d]
    BY <1>10 DEF CapOffer
  <2>2. job'[w] = [job[w] EXCEPT !.delta = d]
    BY <2>1 DEF Inv, TypeOK
  <2>3. /\ job'[w].kind = job[w].kind /\ job'[w].when = job[w].when
        /\ job'[w].user = job[w].user /\ job'[w].users = job[w].users
        /\ pc'[w] = "balance"
    BY <1>1, <1>10, <2>2 DEF Jobs, CapOffer, Go, Inv, TypeOK
  <2>4. Ordered(w)'
    BY <1>1, <1>3, <2>3 DEF Ordered, At
  <2> QED BY <1>1, <1>2, <2>3, <2>4, MoverOrdered
<1> QED BY <1>4, <1>6, <1>7, <1>8, <1>9, <1>10 DEF Step

\* What the environment and a new operation take from the bounds.
LEMMA SpendCounts ==
  ASSUME Inv, NEW b \in Budgets, Spend(b)
  PROVE  /\ budget'["command"] <= budget["command"]
         /\ b # "failure" => budget'["failure"] = budget["failure"]
         /\ b # "restart" => budget'["restart"] = budget["restart"]
         /\ b = "command" => budget'["command"] < budget["command"]
         /\ budget[b] > 0 /\ budget'[b] = budget[b] - 1
BY BudgetNames DEF Spend, Inv, TypeOK, Budgets

\* A new operation.
LEMMA StartOrders ==
  ASSUME Inv, Inv', OrderInv, NEW w \in Workers,
         NEW step \in {"cooldown", "append", "find", "offer", "balance"}, NEW j,
         Start(w, step, j), snap' = snap \/ \E v : Keep(w, v),
         NEW b \in Budgets, Spend(b),
         \/ /\ w # Ticker /\ b = "command" /\ j.when = budget["command"]
            /\ j.kind \in Ordering /\ j.users \subseteq {j.user}
         \/ w # Ticker /\ j.kind = "remove"
         \/ w = Ticker /\ j.kind = "award" /\ j.when = 0
  PROVE  OrderInv'
<1>1. Only(w) /\ pc'[w] = step /\ job'[w] = j
  BY StartOnly
<1>2. Ordered(w)'
  BY <1>1, SpendCounts DEF Ordered, Ordering, At
<1> QED BY <1>1, <1>2, SpendCounts, MoverOrdered DEF Ordering

LEMMA BeginOrders ==
  ASSUME Inv, Inv', OrderInv, NEW w \in Handlers, Begin(w)
  PROVE  OrderInv'
<1>1. w \in Workers /\ w # Ticker /\ "command" \in Budgets
  BY KeysAssumption, BudgetNames DEF Workers
<1>2. ASSUME NEW u \in Users, NEW r \in Rewards,
             CommandRedeem(w, u, r) \/ RPCCreate(w, u, r)
      PROVE  OrderInv'
  BY <1>1, <1>2, StartOrders DEF CommandRedeem, RPCCreate, Ordering
<1>3. ASSUME NEW r, RPCRemove(w, r) PROVE OrderInv'
  BY <1>1, <1>3, StartOrders DEF RPCRemove
<1>4. ASSUME NEW u \in Users, NEW g \in Goals, NEW p \in Offers,
             CommandContribute(w, u, g, p)
      PROVE  OrderInv'
  BY <1>1, <1>4, StartOrders DEF CommandContribute, Ordering
<1> QED BY <1>2, <1>3, <1>4 DEF Begin

LEMMA UntouchedOrders ==
  ASSUME Inv, Inv', OrderInv, UNCHANGED threads,
         budget'["command"] <= budget["command"]
  PROVE  OrderInv'
<1>1. /\ budget["command"] \in Nat /\ budget'["command"] \in Nat
      /\ \A x \in Workers : job[x].when \in Nat
  BY CommandsLeft, BudgetNames DEF Inv, TypeOK
<1> QED BY <1>1 DEF threads, OrderInv, Distinct, Ordered, At, RedeemOf

LEMMA NextOrders == Inv /\ OrderInv /\ [Next]_vars => OrderInv'
<1> SUFFICES ASSUME Inv, OrderInv, [Next]_vars PROVE OrderInv'
  OBVIOUS
<1>0. Inv' /\ "round" \in Budgets /\ "client" \in Budgets
      /\ budget["command"] <= budget["command"]
  BY NextInv, BudgetNames, CommandsLeft
<1>1. ASSUME NEW w \in Handlers, Begin(w) PROVE OrderInv'
  BY <1>0, <1>1, BeginOrders
<1>2. ASSUME NEW w \in Workers, Step(w) PROVE OrderInv'
  BY <1>2, StepOrders
<1>3. ASSUME NEW U \in SUBSET Users, AwardRound(U) PROVE OrderInv'
  BY <1>0, <1>3, StartOrders DEF AwardRound, Workers
<1>4. ASSUME \/ \E k \in Keys : Update(k)
             \/ \E r \in Rewards : CooldownOver(r)
             \/ UNCHANGED vars
      PROVE  OrderInv'
  BY <1>0, <1>4, UntouchedOrders DEF Update, CooldownOver, vars, threads
<1>5. ASSUME \/ \E u \in Users, p \in ClientPoints : ClientSetsPoints(u, p)
             \/ \E list \in ClientGoals : ClientSavesGoals(list)
      PROVE  OrderInv'
  BY <1>0, <1>5, SpendCounts, UntouchedOrders
  DEF ClientSetsPoints, ClientSavesGoals
<1>6. CASE Restart
  BY <1>6 DEF Restart, OrderInv, Distinct, Ordered, Ordering, NoJob, At
<1> QED BY <1>1, <1>2, <1>3, <1>4, <1>5, <1>6 DEF Next, Environment

-----------------------------------------------------------------------------
(* What a step does to the open orders.                                    *)

Open == UNION {OrdersOf(w) : w \in Workers}

LEMMA OrderParts ==
  ASSUME Inv, OrderInv, NEW w \in Workers, NEW o \in OrdersOf(w)
  PROVE  /\ o.stage = Stage(w) /\ o.when = job[w].when
         /\ job[w].kind \in Ordering \cup {"award"}
         /\ o.stage = "due" <=> job[w].kind = "award"
<1>1. PICK u \in Recipients(w) : o = OrderOf(w, u)
  BY DEF OrdersOf
<1>2. Stage(w) # "none"
  BY DEF OrdersOf
<1>3. /\ job[w].kind \in Ordering \cup {"award"}
      /\ Stage(w) = "due" <=> job[w].kind = "award"
  BY <1>2 DEF Stage, Ordering
<1> QED BY <1>1, <1>3 DEF OrderOf

\* Two goroutines never work on the same order.
LEMMA OrdersApart ==
  ASSUME Inv, OrderInv, NEW w \in Workers, NEW x \in Workers, w # x,
         NEW o \in OrdersOf(w), NEW p \in OrdersOf(x)
  PROVE  o.when # p.when
<1>1. /\ o.when = job[w].when /\ job[w].kind \in Ordering \cup {"award"}
      /\ p.when = job[x].when /\ job[x].kind \in Ordering \cup {"award"}
  BY OrderParts
<1>2. Ordered(w) /\ Ordered(x) /\ Distinct /\ budget["command"] \in Nat
      /\ job[w].when \in Nat /\ job[x].when \in Nat
  BY CommandsLeft DEF OrderInv
<1> QED BY <1>1, <1>2 DEF Ordered, Distinct, Ordering

\* When w moves, the orders of the others stay.
LEMMA OthersOrders ==
  ASSUME NEW w \in Workers, Only(w)
  PROVE  \A x \in Workers \ {w} : OrdersOf(x)' = OrdersOf(x)
BY DEF Only, OrdersOf, OrderOf, Stage, Recipients, At

LEMMA OpenChanges ==
  ASSUME Inv, OrderInv, NEW w \in Workers, Only(w)
  PROVE  Open' = (Open \ OrdersOf(w)) \cup OrdersOf(w)'
<1>1. \A x \in Workers \ {w} : OrdersOf(x)' = OrdersOf(x)
  BY OthersOrders
<1>2. \A x \in Workers \ {w} : OrdersOf(x) \cap OrdersOf(w) = {}
  BY OrdersApart
<1> QED BY <1>1, <1>2 DEF Open

LEMMA OrdersSame ==
  ASSUME Inv, OrderInv, NEW w \in Workers, Only(w), OrdersOf(w)' = OrdersOf(w)
  PROVE  Open' = Open
BY OpenChanges DEF Open

LEMMA OrderCloses ==
  ASSUME Inv, OrderInv, NEW w \in Workers, Only(w), NEW o \in OrdersOf(w),
         OrdersOf(w)' = OrdersOf(w) \ {o}
  PROVE  o \in Open /\ Ledger!Close(o)
<1>1. o \in Open /\ Open' = Open \ {o}
  BY OpenChanges DEF Open
<1> QED BY <1>1 DEF Ledger!Close, Open

LEMMA OrderMoves ==
  ASSUME Inv, OrderInv, NEW w \in Workers, Only(w), NEW o, NEW stage,
         OrdersOf(w) = {o}, OrdersOf(w)' = {[o EXCEPT !.stage = stage]}
  PROVE  o \in Open /\ Ledger!Move(o, stage)
<1>1. o \in Open /\ Open' = (Open \ {o}) \cup {[o EXCEPT !.stage = stage]}
  BY OpenChanges DEF Open
<1> QED BY <1>1 DEF Ledger!Move, Open

\* A refused write ends the order of its goroutine, if it has one.
LEMMA OrderDrops ==
  ASSUME Inv, OrderInv, NEW w \in Workers, Only(w),
         OrdersOf(w)' = {}
  PROVE  Open' = Open \/ \E o \in Open : Open' = {p \in Open : p.when # o.when}
<1>1. CASE OrdersOf(w) = {}
  BY <1>1, OrdersSame
<1>2. CASE OrdersOf(w) # {}
  <2>1. PICK o \in OrdersOf(w) : TRUE
    BY <1>2
  <2>2. Open' = Open \ OrdersOf(w)
    BY OpenChanges
  <2>3. \A p \in OrdersOf(w) : p.when = o.when
    BY <2>1, OrderParts
  <2>4. \A x \in Workers \ {w} : \A p \in OrdersOf(x) : p.when # o.when
    BY <2>1, OrdersApart
  <2>5. o \in Open
    BY <2>1 DEF Open
  <2>6. \A p \in Open : p \in OrdersOf(w) <=> p.when = o.when
    BY <2>3, <2>4 DEF Open
  <2>7. Open' = {p \in Open : p.when # o.when}
    BY <2>2, <2>6
  <2> QED BY <2>5, <2>7
<1> QED BY <1>1, <1>2

\* A new order.
LEMMA OrderOpens ==
  ASSUME Inv, OrderInv, Inv', OrderInv', NEW w \in Workers, Only(w), NEW o,
         OrdersOf(w) = {}, OrdersOf(w)' = {o}
  PROVE  o \in Open' /\ o \notin Open /\ Open' = Open \cup {o}
<1>1. Open' = Open \cup {o}
  BY OpenChanges
<1>2. \A x \in Workers \ {w} : OrdersOf(x)' = OrdersOf(x)
  BY OthersOrders
<1>3. \A x \in Workers \ {w} : o \notin OrdersOf(x)
  <2> SUFFICES ASSUME NEW x \in Workers \ {w}, o \in OrdersOf(x)' PROVE FALSE
    BY <1>2
  <2>1. o \in OrdersOf(w)'
    OBVIOUS
  <2>2. /\ o.when = job'[w].when /\ job'[w].kind \in Ordering \cup {"award"}
        /\ o.when = job'[x].when /\ job'[x].kind \in Ordering \cup {"award"}
    <3>1. o = o /\ \E u \in Recipients(w)' : o = OrderOf(w, u)'
      BY <2>1 DEF OrdersOf
    <3>2. \E u \in Recipients(x)' : o = OrderOf(x, u)'
      BY DEF OrdersOf
    <3>3. Stage(w)' # "none" /\ Stage(x)' # "none"
      BY <2>1 DEF OrdersOf
    <3>4. job'[w].kind \in Ordering \cup {"award"}
      BY <3>3 DEF Stage, Ordering
    <3>5. job'[x].kind \in Ordering \cup {"award"}
      BY <3>3 DEF Stage, Ordering
    <3> QED BY <3>1, <3>2, <3>4, <3>5 DEF OrderOf
  <2>3. \A y \in {w, x} :
          /\ job'[y].kind \in Ordering => budget'["command"] < job'[y].when
          /\ job'[y].kind = "award" => y = Ticker /\ job'[y].when = 0
    BY DEF OrderInv, Ordered
  <2>4. job'[w].kind \in Ordering /\ job'[x].kind \in Ordering
          => job'[w].when # job'[x].when
    BY DEF OrderInv, Distinct
  <2>5. budget'["command"] \in Nat /\ job'[w].when \in Nat /\ job'[x].when \in Nat
    BY BudgetNames DEF Inv, TypeOK, Jobs
  <2>6. job'[w].when = job'[x].when
    BY <2>2
  <2>7. CASE job'[w].kind = "award" /\ job'[x].kind = "award"
    BY <2>3, <2>7
  <2>8. CASE job'[w].kind = "award" /\ job'[x].kind \in Ordering
    BY <2>3, <2>5, <2>6, <2>8
  <2>9. CASE job'[w].kind \in Ordering /\ job'[x].kind = "award"
    BY <2>3, <2>5, <2>6, <2>9
  <2>10. CASE job'[w].kind \in Ordering /\ job'[x].kind \in Ordering
    BY <2>4, <2>6, <2>10
  <2> QED BY <2>2, <2>7, <2>8, <2>9, <2>10
<1> QED BY <1>1, <1>3 DEF Open

-----------------------------------------------------------------------------
(* What a step does to the versions of a key.                              *)

Pushes(k) == {echo[k][i] : i \in DOMAIN echo[k]}

LEMMA AmongVersions ==
  ASSUME NEW k
  PROVE  /\ mem[k] \in Versions(k) /\ store[k] \in Versions(k)
         /\ Pushes(k) \subseteq Versions(k)
         /\ \A w \in Workers : Holds(w) = k => Held(w) \in Versions(k)
BY DEF Versions, Pushes

\* Only w may hold something new.
LEMMA VersionsWithin ==
  ASSUME NEW w \in Workers, Only(w), NEW k, NEW V, Versions(k) \subseteq V,
         mem'[k] \in V, store'[k] \in V, Pushes(k)' \subseteq V,
         Holds(w)' = k => Held(w)' \in V
  PROVE  Versions(k)' \subseteq V
<1>1. \A x \in Workers \ {w} : Holds(x)' = Holds(x) /\ Held(x)' = Held(x)
  BY DEF Only, Holds, Held, ListKey, At
<1>2. \A x \in Workers : Holds(x)' = k => Held(x)' \in V
  BY <1>1, AmongVersions
<1> QED BY <1>2 DEF Versions, Pushes

LEMMA AppendPushes ==
  ASSUME NEW S, NEW s \in Seq(S), NEW v
  PROVE  {Append(s, v)[i] : i \in DOMAIN Append(s, v)}
           \subseteq {s[i] : i \in DOMAIN s} \cup {v}
OBVIOUS

LEMMA TailPushes ==
  ASSUME NEW S, NEW s \in Seq(S), s # <<>>
  PROVE  /\ {Tail(s)[i] : i \in DOMAIN Tail(s)} \subseteq {s[i] : i \in DOMAIN s}
         /\ Head(s) \in {s[i] : i \in DOMAIN s}
OBVIOUS

\* The keys of the ledger in the terms of the manager.
LEMMA LedgerKeeps ==
  ASSUME \A k \in Keys : Versions(k)' \subseteq Versions(k)
  PROVE  Ledger!Keep
BY DEF Ledger!Keep, Ledger!Forget, Ledger!Keys, Keys

LEMMA LedgerNews ==
  ASSUME NEW k \in Keys, NEW v, v \in Versions(k)',
         Versions(k)' \subseteq Versions(k) \cup {v},
         \A i \in Keys \ {k} : Versions(i)' \subseteq Versions(i)
  PROVE  Ledger!New(k, v)
BY DEF Ledger!New, Ledger!Forget, Ledger!Keys, Keys

\* What w holds after its step, it held before or found in memory.
Borrows(w) ==
  Holds(w)' \in Keys => Held(w)' \in Versions(Holds(w)')

LEMMA QuietKeeps ==
  ASSUME NEW w \in Workers, Only(w), UNCHANGED <<mem, store, echo>>, Borrows(w)
  PROVE  \A k \in Keys : Versions(k)' \subseteq Versions(k)
<1> SUFFICES ASSUME NEW k \in Keys PROVE Versions(k)' \subseteq Versions(k)
  OBVIOUS
<1>1. Pushes(k)' \subseteq Versions(k)
  BY AmongVersions DEF Pushes
<1> QED BY <1>1, AmongVersions, VersionsWithin DEF Borrows

\* Saving what the goroutine held.
LEMMA WriteKeeps ==
  ASSUME Inv, NEW w \in Workers, Only(w), NEW k \in Keys, NEW v \in Versions(k),
         Write(k, v), mem' = mem, Borrows(w)
  PROVE  \A i \in Keys : Versions(i)' \subseteq Versions(i)
<1> SUFFICES ASSUME NEW i \in Keys PROVE Versions(i)' \subseteq Versions(i)
  OBVIOUS
<1>1. store'[i] \in Versions(i)
  BY AmongVersions DEF Write, Inv, TypeOK
<1>2. Pushes(i)' \subseteq Versions(i)
  <2>1. CASE i = k
    <3>1. echo'[i] = Append(echo[i], v) /\ echo[i] \in Seq(Value(i))
      BY <2>1 DEF Write, Inv, TypeOK
    <3>2. Pushes(i)' \subseteq Pushes(i) \cup {v}
      BY <3>1, AppendPushes DEF Pushes
    <3> QED BY <2>1, <3>2, AmongVersions
  <2>2. CASE i # k
    <3>1. echo'[i] = echo[i]
      BY <2>2 DEF Write, Inv, TypeOK
    <3> QED BY <3>1, AmongVersions DEF Pushes
  <2> QED BY <2>1, <2>2
<1> QED BY <1>1, <1>2, AmongVersions, VersionsWithin DEF Borrows

\* Storing something new in memory.
LEMMA SetNews ==
  ASSUME Inv, NEW w \in Workers, Only(w), NEW k \in Keys, NEW v, Set(k, v),
         UNCHANGED <<store, echo>>, Holds(w)' = k => Held(w)' = v,
         Holds(w)' \in {k, None}
  PROVE  Ledger!New(k, v)
<1>1. mem'[k] = v /\ \A i \in Keys \ {k} : mem'[i] = mem[i]
  BY DEF Set, Inv, TypeOK
<1>2. Versions(k)' \subseteq Versions(k) \cup {v}
  <2>1. /\ Versions(k) \subseteq Versions(k) \cup {v}
        /\ mem'[k] \in Versions(k) \cup {v}
        /\ store'[k] \in Versions(k) \cup {v}
        /\ Pushes(k)' \subseteq Versions(k) \cup {v}
    BY <1>1, AmongVersions DEF Pushes
  <2>2. Holds(w)' = k => Held(w)' \in Versions(k) \cup {v}
    OBVIOUS
  <2> HIDE DEF Pushes
  <2> QED BY <2>1, <2>2, VersionsWithin
<1>3. ASSUME NEW i \in Keys \ {k} PROVE Versions(i)' \subseteq Versions(i)
  <2>1. None \notin Keys
    BY KeysAssumption DEF Keys
  <2> QED BY <1>1, <2>1, AmongVersions, VersionsWithin DEF Pushes
<1>4. v \in Versions(k)'
  BY <1>1 DEF Versions
<1> QED BY <1>2, <1>3, <1>4, LedgerNews

-----------------------------------------------------------------------------
(* The steps of a goroutine are steps of the ledger.                       *)

\* The bounds that are part of the ledger.
Failures == <<budget["failure"], budget["restart"]>>

LEMMA IdleMaps ==
  ASSUME Open' = Open, hot' = hot, UNCHANGED Failures,
         \A k \in Keys : Versions(k)' \subseteq Versions(k)
  PROVE  Ledger!Next
BY LedgerKeeps DEF Ledger!Next, Ledger!Idle, Ledger!Rest, Open, Failures

LEMMA CoolMaps ==
  ASSUME Open' = Open, UNCHANGED Failures, NEW r \in Rewards,
         hot' = hot \cup {r} \/ hot' = hot \ {r},
         \A k \in Keys : Versions(k)' \subseteq Versions(k)
  PROVE  Ledger!Next
<1>1. Ledger!Cool
  BY LedgerKeeps DEF Ledger!Cool, Open, Failures
<1> QED BY <1>1 DEF Ledger!Next

\* Writes that are refused end the operation.
LEMMA RefuseMaps ==
  ASSUME Inv, OrderInv, NEW w \in Workers, Only(w), NEW k, Refuse(k),
         mem' = mem, hot' = hot, Borrows(w),
         OrdersOf(w)' = {} \/ OrdersOf(w)' = OrdersOf(w)
  PROVE  Ledger!Next
<1>1. \A i \in Keys : Versions(i)' \subseteq Versions(i)
  BY QuietKeeps DEF Refuse
<1>2. Open' = Open \/ \E o \in Open : Open' = {p \in Open : p.when # o.when}
  BY OrderDrops, OrdersSame
<1>3. Ledger!Refuse
  BY <1>1, <1>2, LedgerKeeps, RefuseCounts DEF Ledger!Refuse, Open
<1> QED BY <1>3 DEF Ledger!Next

\* A goroutine that returns holds nothing and has no order.
LEMMA Returned ==
  ASSUME Inv, NEW w \in Workers, Return(w)
  PROVE  OrdersOf(w)' = {} /\ Borrows(w)
<1>1. pc'[w] = "idle" /\ job'[w] = NoJob
  BY DEF Return, Go, Inv, TypeOK
<1>2. Stage(w)' = "none"
  BY <1>1 DEF Stage, NoJob, At
<1>3. Holds(w)' = None
  BY <1>1 DEF Holds
<1>4. None \notin Keys
  BY KeysAssumption DEF Keys
<1> QED BY <1>2, <1>3, <1>4 DEF OrdersOf, Borrows

LEMMA HoldsNothing ==
  ASSUME NEW w \in Workers,
         pc'[w] \notin {"setPoints", "putPoints", "publish", "unlist", "offer",
                        "addGoal", "save"}
  PROVE  Holds(w)' = None /\ Borrows(w)
<1>1. Holds(w)' = None
  BY DEF Holds
<1>2. None \notin Keys
  BY KeysAssumption DEF Keys
<1> QED BY <1>1, <1>2 DEF Borrows

\* The one order of a goroutine that works for one viewer.
LEMMA OneOrder ==
  ASSUME NEW w \in Workers, Stage(w) \notin {"none", "due"}
  PROVE  OrdersOf(w) = {OrderOf(w, job[w].user)}
BY DEF OrdersOf, Recipients

LEMMA StageKept ==
  ASSUME NEW w \in Workers, job'[w] = job[w], Stage(w)' = Stage(w),
         Stage(w) # "due"
  PROVE  OrdersOf(w)' = OrdersOf(w)
BY DEF OrdersOf, Recipients, OrderOf

LEMMA LookingMaps ==
  ASSUME Inv, OrderInv, NEW w \in Workers,
         ReadQueue(w) \/ ReadList(w) \/ FindRedeem(w) \/ StartCooldown(w)
  PROVE  Ledger!Next
<1>1. Only(w) /\ StepOK(w)
  BY StepOnly DEF Step, Inv
<1>2. UNCHANGED <<mem, store, echo>> /\ UNCHANGED Failures
  BY DEF ReadQueue, ReadList, FindRedeem, StartCooldown, kv, Failures
<1>3. Borrows(w) /\ OrdersOf(w)' = OrdersOf(w)
  <2>1. CASE ReadQueue(w)
    <3>1. /\ pc[w] = "append" /\ pc'[w] = "publish" /\ job' = job
          /\ snap'[w] = mem[QueueKey] /\ job[w].kind \in {"redeem", "create"}
      BY <1>1, <2>1 DEF ReadQueue, At, Go, Keep, Inv, TypeOK, StepOK
    <3>2. Stage(w)' = Stage(w) /\ Stage(w) # "due"
      BY <3>1 DEF Stage, At
    <3>3. Holds(w)' = QueueKey /\ Held(w)' = mem[QueueKey]
      BY <3>1 DEF Holds, Held, At
    <3>4. mem[QueueKey] \in Versions(QueueKey)
      BY AmongVersions
    <3> QED BY <3>1, <3>2, <3>3, <3>4, StageKept DEF Borrows
  <2>2. CASE ReadList(w)
    <3>1. /\ pc[w] = "marshal" /\ pc'[w] = "save" /\ job' = job
          /\ snap'[w] = mem[ListKey(w)]
          /\ job[w].kind \in {"redeem", "create", "remove", "contribute"}
      BY <1>1, <2>2 DEF ReadList, At, Go, Keep, Inv, TypeOK, StepOK
    <3>2. Stage(w)' = Stage(w) /\ Stage(w) # "due"
      BY <3>1 DEF Stage, At
    <3>3. Holds(w)' = ListKey(w) /\ Held(w)' = mem[ListKey(w)]
      BY <3>1 DEF Holds, Held, At, ListKey
    <3>4. mem[ListKey(w)] \in Versions(ListKey(w))
      BY AmongVersions
    <3> QED BY <3>1, <3>2, <3>3, <3>4, StageKept DEF Borrows
  <2>3. CASE FindRedeem(w)
    <3>1. pc[w] = "find" /\ job[w].kind = "remove"
      BY <1>1, <2>3 DEF FindRedeem, At, StepOK
    <3>2. OrdersOf(w) = {}
      BY <3>1 DEF OrdersOf, Stage
    <3>3. CASE Return(w)
      BY <3>2, <3>3, Returned
    <3>4. CASE Keep(w, mem[QueueKey]) /\ Go(w, "unlist") /\ UNCHANGED job
      <4>1. pc'[w] = "unlist" /\ snap'[w] = mem[QueueKey]
        BY <3>4 DEF Go, Keep, Inv, TypeOK
      <4>2. Holds(w)' = QueueKey /\ Held(w)' = mem[QueueKey]
        BY <4>1 DEF Holds, Held, At
      <4>3. mem[QueueKey] \in Versions(QueueKey)
        BY AmongVersions
      <4>4. OrdersOf(w)' = {}
        BY <3>1, <3>4 DEF OrdersOf, Stage
      <4> QED BY <3>2, <4>2, <4>3, <4>4 DEF Borrows
    <3> QED BY <2>3, <3>3, <3>4 DEF FindRedeem
  <2>4. CASE StartCooldown(w)
    <3>1. /\ pc[w] = "heat" /\ pc'[w] = "marshal" /\ job' = job
          /\ job[w].kind \in {"redeem", "create"}
      BY <1>1, <2>4 DEF StartCooldown, At, Go, Inv, TypeOK, StepOK
    <3>2. Stage(w)' = Stage(w) /\ Stage(w) # "due"
      BY <3>1 DEF Stage, At
    <3> QED BY <3>1, <3>2, StageKept, HoldsNothing
  <2> QED BY <2>1, <2>2, <2>3, <2>4
<1>4. Open' = Open /\ \A k \in Keys : Versions(k)' \subseteq Versions(k)
  BY <1>1, <1>2, <1>3, OrdersSame, QuietKeeps
<1>5. CASE hot' = hot
  BY <1>2, <1>4, <1>5, IdleMaps
<1>6. CASE hot' # hot
  <2>1. /\ hot' = hot \cup ({job[w].item} \cap HasCooldown)
        /\ job[w].item \in Rewards
    BY <1>1, <1>6 DEF ReadQueue, ReadList, FindRedeem, StartCooldown, At, StepOK
  <2>2. hot' = hot \cup {job[w].item}
    BY <1>6, <2>1
  <2> QED BY <1>2, <1>4, <2>1, <2>2, CoolMaps
<1> QED BY <1>5, <1>6

LEMMA CheckCooldownMaps ==
  ASSUME Inv, OrderInv, NEW w \in Workers, CheckCooldown(w)
  PROVE  Ledger!Next
<1> DEFINE o == OrderOf(w, job[w].user)
<1>1. Only(w) /\ pc[w] = "cooldown" /\ job[w].kind = "redeem"
  BY StepOnly DEF Step, CheckCooldown, At, Inv, StepOK
<1>2. UNCHANGED <<mem, store, echo, hot, budget>>
  BY DEF CheckCooldown, kv
<1>3. Stage(w) = "asked"
  BY <1>1 DEF Stage, At
<1>4. OrdersOf(w) = {o} /\ o.stage = "asked" /\ o.item = job[w].item
  BY <1>3, OneOrder DEF OrderOf
<1>5. CASE job[w].item \in hot /\ Return(w)
  <2>1. OrdersOf(w)' = OrdersOf(w) \ {o} /\ Borrows(w)
    BY <1>4, <1>5, Returned
  <2>2. o \in Open /\ Ledger!Close(o) /\ Ledger!Keep
    BY <1>1, <1>2, <1>4, <2>1, OrderCloses, QuietKeeps, LedgerKeeps
  <2>3. Ledger!Decline(o)
    BY <1>2, <1>4, <1>5, <2>2 DEF Ledger!Decline, Ledger!Rest
  <2> QED BY <2>2, <2>3 DEF Ledger!Next, Open
<1>6. CASE job[w].item \notin hot /\ Go(w, "append") /\ UNCHANGED <<job, snap>>
  <2>1. pc'[w] = "append" /\ job' = job
    BY <1>6 DEF Go, Inv, TypeOK
  <2>2. Stage(w)' = "admitted"
    BY <1>1, <2>1 DEF Stage, At
  <2>3. OrdersOf(w)' = {[o EXCEPT !.stage = "admitted"]}
    BY <2>1, <2>2 DEF OrdersOf, Recipients, OrderOf
  <2>4. Borrows(w)
    BY <2>1, HoldsNothing
  <2>5. o \in Open /\ Ledger!Move(o, "admitted") /\ Ledger!Keep
    BY <1>1, <1>2, <1>4, <2>3, <2>4, OrderMoves, QuietKeeps, LedgerKeeps
  <2>6. Ledger!Admit(o)
    BY <1>2, <1>4, <1>6, <2>5 DEF Ledger!Admit, Ledger!Rest
  <2> QED BY <2>5, <2>6 DEF Ledger!Next, Open
<1> QED BY <1>5, <1>6 DEF CheckCooldown

LEMMA AppendQueueMaps ==
  ASSUME Inv, OrderInv, NEW w \in Workers, AppendQueue(w)
  PROVE  Ledger!Next
<1> DEFINE o == OrderOf(w, job[w].user)
           queue == snap[w]
<1>1. /\ Only(w) /\ pc[w] = "publish" /\ pc'[w] = "event" /\ job' = job
      /\ job[w].kind \in {"redeem", "create"}
  BY StepOnly DEF Step, AppendQueue, At, Go, Inv, TypeOK, StepOK
<1>2. /\ Set(QueueKey, queue \cup {RedeemOf(w)})
      /\ UNCHANGED <<store, echo, hot, budget>>
  BY DEF AppendQueue
<1>3. queue \in Versions(QueueKey)
  <2>1. Holds(w) = QueueKey /\ Held(w) = queue
    BY <1>1 DEF Holds, Held, At
  <2> QED BY <2>1, AmongVersions
<1>4. Ledger!New(QueueKey, queue \cup {RedeemOf(w)})
  <2>1. Holds(w)' = None
    BY <1>1, HoldsNothing
  <2>2. QueueKey \in Keys /\ None # QueueKey
    BY KeysAssumption DEF Keys
  <2> QED BY <1>1, <1>2, <2>1, <2>2, SetNews
<1>5. Ledger!Redeem(o) = RedeemOf(w)
  BY DEF Ledger!Redeem, OrderOf, RedeemOf
<1>6. CASE job[w].kind = "redeem"
  <2>1. Stage(w) = "admitted" /\ Stage(w)' = "queued"
    BY <1>1, <1>6 DEF Stage, At
  <2>2. OrdersOf(w) = {o} /\ o.stage = "admitted"
    BY <2>1, OneOrder DEF OrderOf
  <2>3. OrdersOf(w)' = {[o EXCEPT !.stage = "queued"]}
    BY <1>1, <2>1 DEF OrdersOf, Recipients, OrderOf
  <2>4. o \in Open /\ Ledger!Move(o, "queued")
    BY <1>1, <2>2, <2>3, OrderMoves
  <2> HIDE DEF o
  <2>5. Ledger!Enqueue(o)
    BY <1>2, <1>3, <1>4, <1>5, <2>2, <2>4, KeyTypes
    DEF Ledger!Enqueue, Ledger!Rest
  <2> QED BY <2>4, <2>5 DEF Ledger!Next, Open
<1>7. CASE job[w].kind = "create"
  <2>1. Stage(w) = "granted" /\ Stage(w)' = "none"
    BY <1>1, <1>7 DEF Stage
  <2>2. OrdersOf(w) = {o} /\ o.stage = "granted"
    BY <2>1, OneOrder DEF OrderOf
  <2>3. OrdersOf(w)' = OrdersOf(w) \ {o}
    BY <2>1, <2>2 DEF OrdersOf
  <2>4. o \in Open /\ Ledger!Close(o)
    BY <1>1, <2>2, <2>3, OrderCloses
  <2> HIDE DEF o
  <2>5. Ledger!Enqueue(o)
    BY <1>2, <1>3, <1>4, <1>5, <2>2, <2>4, KeyTypes
    DEF Ledger!Enqueue, Ledger!Rest
  <2> QED BY <2>4, <2>5 DEF Ledger!Next, Open
<1> QED BY <1>1, <1>6, <1>7

LEMMA UnlistRedeemMaps ==
  ASSUME Inv, OrderInv, NEW w \in Workers, UnlistRedeem(w)
  PROVE  Ledger!Next
<1> DEFINE queue == snap[w]
<1>1. /\ Only(w) /\ pc[w] = "unlist" /\ pc'[w] = "marshal" /\ job' = job
      /\ job[w].kind = "remove" /\ RedeemOf(w) \in queue
  BY StepOnly DEF Step, UnlistRedeem, At, Go, Inv, TypeOK, StepOK, OrderInv,
                  Ordered
<1>2. /\ Set(QueueKey, queue \ {RedeemOf(w)})
      /\ UNCHANGED <<store, echo, hot, budget>>
  BY DEF UnlistRedeem
<1>3. queue \in Versions(QueueKey)
  <2>1. Holds(w) = QueueKey /\ Held(w) = queue
    BY <1>1 DEF Holds, Held, At
  <2> QED BY <2>1, AmongVersions
<1>4. Ledger!New(QueueKey, queue \ {RedeemOf(w)})
  <2>1. Holds(w)' = None
    BY <1>1, HoldsNothing
  <2>2. QueueKey \in Keys /\ None # QueueKey
    BY KeysAssumption DEF Keys
  <2> QED BY <1>1, <1>2, <2>1, <2>2, SetNews
<1>5. OrdersOf(w) = {} /\ OrdersOf(w)' = {}
  BY <1>1 DEF OrdersOf, Stage
<1>6. Open' = Open
  BY <1>1, <1>5, OrdersSame
<1>7. QueueKey \in Keys
  BY KeyTypes
<1>8. Ledger!Remove(RedeemOf(w))
  BY <1>2, <1>3, <1>4, <1>6, <1>7 DEF Ledger!Remove, Ledger!Rest, Open
<1> QED BY <1>1, <1>3, <1>7, <1>8 DEF Ledger!Next

LEMMA SendEventMaps ==
  ASSUME Inv, OrderInv, NEW w \in Workers, SendEvent(w)
  PROVE  Ledger!Next
<1> DEFINE o == OrderOf(w, job[w].user)
<1>1. /\ Only(w) /\ pc[w] = "event" /\ job[w].kind \in {"redeem", "create"}
      /\ UNCHANGED <<mem, hot>>
  BY StepOnly DEF Step, SendEvent, At, Inv, StepOK
<1>2. CASE Refuse(QueueKey) /\ Return(w)
  BY <1>1, <1>2, Returned, RefuseMaps
<1>3. CASE Go(w, "heat") /\ UNCHANGED <<job, snap, unsaved, budget, store, echo>>
  <2>1. pc'[w] = "heat" /\ job' = job
    BY <1>3 DEF Go, Inv, TypeOK
  <2>2. Borrows(w)
    BY <2>1, HoldsNothing
  <2>3. \A k \in Keys : Versions(k)' \subseteq Versions(k)
    BY <1>1, <1>3, <2>2, QuietKeeps
  <2>4. CASE job[w].kind = "create"
    <3>1. OrdersOf(w) = {} /\ OrdersOf(w)' = {}
      BY <1>1, <2>1, <2>4 DEF OrdersOf, Stage
    <3>2. Open' = Open
      BY <1>1, <3>1, OrdersSame
    <3> QED BY <1>1, <1>3, <2>3, <3>2, IdleMaps DEF Failures
  <2>5. CASE job[w].kind = "redeem"
    <3>1. Stage(w) = "queued" /\ Stage(w)' = "owed"
      BY <1>1, <2>1, <2>5 DEF Stage, At
    <3>2. OrdersOf(w) = {o} /\ o.stage = "queued"
      BY <3>1, OneOrder DEF OrderOf
    <3>3. OrdersOf(w)' = {[o EXCEPT !.stage = "owed"]}
      BY <2>1, <3>1 DEF OrdersOf, Recipients, OrderOf
    <3>4. o \in Open /\ Ledger!Move(o, "owed")
      BY <1>1, <3>2, <3>3, OrderMoves
    <3> HIDE DEF o
    <3>5. Ledger!Publish(o)
      BY <1>1, <1>3, <2>3, <3>2, <3>4, LedgerKeeps
      DEF Ledger!Publish, Ledger!Rest
    <3> QED BY <3>4, <3>5 DEF Ledger!Next, Open
  <2> QED BY <1>1, <2>4, <2>5
<1> QED BY <1>2, <1>3 DEF SendEvent

LEMMA SaveListMaps ==
  ASSUME Inv, OrderInv, NEW w \in Workers, SaveList(w)
  PROVE  Ledger!Next
<1>1. /\ Only(w) /\ pc[w] = "save" /\ mem' = mem /\ hot' = hot
      /\ job[w].kind \in {"redeem", "create", "remove", "contribute"}
      /\ ListKey(w) \in Keys
  BY StepOnly, KeyTypes
  DEF Step, SaveList, At, Inv, StepOK, ListKey
<1>2. CASE Refuse(ListKey(w)) /\ Return(w)
  BY <1>1, <1>2, Returned, RefuseMaps
<1>3. CASE /\ Write(ListKey(w), snap[w]) /\ UNCHANGED budget
           /\ \/ job[w].kind = "redeem" /\ Go(w, "balance") /\ UNCHANGED job
              \/ job[w].kind # "redeem" /\ Return(w)
  <2>1. Borrows(w) /\ OrdersOf(w)' = OrdersOf(w)
    <3>1. CASE job[w].kind = "redeem" /\ Go(w, "balance") /\ UNCHANGED job
      <4>1. pc'[w] = "balance"
        BY <3>1 DEF Go, Inv, TypeOK
      <4>2. Stage(w) = "owed" /\ Stage(w)' = "owed"
        BY <1>1, <3>1, <4>1 DEF Stage, At
      <4> QED BY <3>1, <4>1, <4>2, HoldsNothing, StageKept
    <3>2. CASE job[w].kind # "redeem" /\ Return(w)
      <4>1. OrdersOf(w) = {}
        BY <1>1, <3>2 DEF OrdersOf, Stage
      <4> QED BY <3>2, <4>1, Returned
    <3> QED BY <1>3, <3>1, <3>2
  <2>2. snap[w] \in Versions(ListKey(w))
    <3>1. Holds(w) = ListKey(w) /\ Held(w) = snap[w]
      BY <1>1 DEF Holds, Held, At
    <3> QED BY <3>1, AmongVersions
  <2>3. Open' = Open /\ \A k \in Keys : Versions(k)' \subseteq Versions(k)
    BY <1>1, <1>3, <2>1, <2>2, OrdersSame, WriteKeeps
  <2> QED BY <1>1, <1>3, <2>3, IdleMaps DEF Failures
<1> QED BY <1>2, <1>3 DEF SaveList

\* A payment before and after the step that makes it.
LEMMA ReadBalanceMaps ==
  ASSUME Inv, OrderInv, NEW w \in Workers, ReadBalance(w)
  PROVE  Ledger!Next
<1>1. /\ Only(w) /\ pc[w] = "balance" /\ pc'[w] = "setPoints"
      /\ job[w] \in Jobs /\ job[w].kind \in {"redeem", "award", "contribute"}
      /\ UNCHANGED <<mem, store, echo, hot, budget>>
  BY StepOnly DEF Step, ReadBalance, At, Go, kv, Inv, TypeOK, StepOK
<1>2. PICK u \in job[w].users :
        /\ job' = [job EXCEPT ![w].user = u, ![w].users = @ \ {u}]
        /\ Keep(w, mem[u] + job[w].delta)
  BY DEF ReadBalance
<1>3. job'[w] = [job[w] EXCEPT !.user = u, !.users = @ \ {u}]
  BY <1>2 DEF Inv, TypeOK
<1>4. /\ job'[w].kind = job[w].kind /\ job'[w].when = job[w].when
      /\ job'[w].item = job[w].item /\ job'[w].delta = job[w].delta
      /\ job'[w].user = u /\ job'[w].users = job[w].users \ {u}
  BY <1>1, <1>3 DEF Jobs
<1>5. Stage(w)' = Stage(w) /\ (Stage(w) = "due" <=> job[w].kind = "award")
      /\ Stage(w) # "none"
  BY <1>1, <1>4 DEF Stage, At
<1>6. Recipients(w)' = Recipients(w)
  <2>1. CASE Stage(w) = "due"
    BY <1>1, <1>2, <1>4, <1>5, <2>1 DEF Recipients, At
  <2>2. CASE Stage(w) # "due"
    <3>1. job[w].user = u
      BY <1>1, <1>2, <1>5, <2>2 DEF OrderInv, Ordered
    <3> QED BY <1>4, <1>5, <2>2, <3>1 DEF Recipients
  <2> QED BY <2>1, <2>2
<1>7. OrdersOf(w)' = OrdersOf(w)
  BY <1>4, <1>5, <1>6 DEF OrdersOf, OrderOf
<1>8. Borrows(w)
  <2>1. u \in Users /\ mem[u] \in Int /\ job[w].delta \in Int
    BY <1>1, <1>2, KeyTypes DEF Jobs, Inv, TypeOK
  <2>2. snap'[w] = mem[u] + job[w].delta
    BY <1>2 DEF Keep, Inv, TypeOK
  <2>3. Holds(w)' = u /\ Held(w)' = mem[u]
    BY <1>1, <1>4, <2>1, <2>2 DEF Holds, Held, At
  <2> QED BY <2>3, AmongVersions DEF Borrows
<1> QED BY <1>1, <1>7, <1>8, OrdersSame, QuietKeeps, IdleMaps DEF Failures

LEMMA SetPointsMaps ==
  ASSUME Inv, OrderInv, NEW w \in Workers, SetPoints(w)
  PROVE  Ledger!Next
<1> DEFINE u == job[w].user
           o == OrderOf(w, u)
           balance == snap[w] - job[w].delta
<1>1. /\ Only(w) /\ pc[w] = "setPoints" /\ pc'[w] = "putPoints"
      /\ job' = job /\ snap' = snap /\ UNCHANGED <<store, echo, hot, budget>>
      /\ job[w].kind \in {"redeem", "award", "contribute"}
      /\ u \in Users /\ snap[w] \in Int /\ job[w].delta \in Int
  BY StepOnly DEF Step, SetPoints, At, Go, Inv, TypeOK, StepOK, Jobs
<1>2. u \in Keys /\ Set(u, snap[w])
  BY <1>1, KeyTypes DEF SetPoints
<1>3. balance \in Versions(u)
  <2>1. Holds(w) = u /\ Held(w) = balance
    BY <1>1 DEF Holds, Held, At
  <2> QED BY <2>1, AmongVersions
<1>4. Ledger!New(u, snap[w])
  <2>1. Holds(w)' = u /\ Held(w)' = snap[w]
    BY <1>1 DEF Holds, Held, At
  <2> QED BY <1>1, <1>2, <2>1, SetNews
<1>5. snap[w] = balance - o.points /\ o.user = u
  <2>1. o.points = -job[w].delta /\ o.user = u
    BY DEF OrderOf
  <2> QED BY <1>1, <2>1
<1>6. ASSUME o \in Open, o.stage \in {"owed", "due", "offered"},
             IF o.stage = "offered" THEN Ledger!Move(o, "pledged")
                                    ELSE Ledger!Close(o)
      PROVE  Ledger!Next
  <2>1. \E b \in Versions(o.user) : Ledger!New(o.user, b - o.points)
    BY <1>3, <1>4, <1>5
  <2>2. o.user \in Keys
    BY <1>2, <1>5
  <2> HIDE DEF o
  <2>3. Ledger!Pay(o)
    BY <1>1, <1>6, <2>1, <2>2 DEF Ledger!Pay, Ledger!Rest
  <2> QED BY <1>6, <2>3 DEF Ledger!Next, Open
<1>7. CASE job[w].kind = "redeem"
  <2>1. Stage(w) = "owed" /\ Stage(w)' = "none"
    BY <1>1, <1>7 DEF Stage, At
  <2>2. OrdersOf(w) = {o} /\ o.stage = "owed"
    BY <2>1, OneOrder DEF OrderOf
  <2>3. OrdersOf(w)' = OrdersOf(w) \ {o}
    BY <2>1, <2>2 DEF OrdersOf
  <2>4. o \in Open /\ Ledger!Close(o)
    BY <1>1, <2>2, <2>3, OrderCloses
  <2> QED BY <1>6, <2>2, <2>4
<1>8. CASE job[w].kind = "contribute"
  <2>1. Stage(w) = "offered" /\ Stage(w)' = "pledged"
    BY <1>1, <1>8 DEF Stage, At
  <2>2. OrdersOf(w) = {o} /\ o.stage = "offered"
    BY <2>1, OneOrder DEF OrderOf
  <2>3. OrdersOf(w)' = {[o EXCEPT !.stage = "pledged"]}
    BY <1>1, <2>1 DEF OrdersOf, Recipients, OrderOf
  <2>4. o \in Open /\ Ledger!Move(o, "pledged")
    BY <1>1, <2>2, <2>3, OrderMoves
  <2> QED BY <1>6, <2>2, <2>4
<1>9. CASE job[w].kind = "award"
  <2>1. Stage(w) = "due" /\ Stage(w)' = "due"
    BY <1>1, <1>9 DEF Stage, At
  <2>2. u \notin job[w].users
    BY <1>1, <1>9 DEF OrderInv, Ordered, At
  <2>3. Recipients(w) = job[w].users \cup {u} /\ Recipients(w)' = job[w].users
    BY <1>1, <2>1 DEF Recipients, At
  <2>4. \A v \in Recipients(w) : OrderOf(w, v)' = OrderOf(w, v)
                                 /\ (OrderOf(w, v) = o => v = u)
    BY <1>1, <2>1 DEF OrderOf
  <2>5. /\ OrdersOf(w) = {OrderOf(w, v) : v \in Recipients(w)}
        /\ OrdersOf(w)' = {OrderOf(w, v) : v \in job[w].users}
    BY <2>1, <2>3, <2>4 DEF OrdersOf
  <2>6. o \in OrdersOf(w) /\ OrdersOf(w)' = OrdersOf(w) \ {o}
    <3> HIDE DEF o
    <3> QED BY <2>2, <2>3, <2>4, <2>5 DEF o
  <2>7. o \in Open /\ Ledger!Close(o)
    BY <1>1, <2>6, OrderCloses
  <2>8. o.stage = "due"
    BY <2>1 DEF OrderOf
  <2> QED BY <1>6, <2>7, <2>8
<1> QED BY <1>1, <1>7, <1>8, <1>9

LEMMA PutPointsMaps ==
  ASSUME Inv, OrderInv, NEW w \in Workers, PutPoints(w)
  PROVE  Ledger!Next
<1> DEFINE u == job[w].user
<1>1. /\ Only(w) /\ pc[w] = "putPoints" /\ mem' = mem /\ hot' = hot
      /\ job[w].kind \in {"redeem", "award", "contribute"}
      /\ u \in Keys
      /\ job[w].kind # "award" => job[w].users = {}
  BY StepOnly, KeyTypes
  DEF Step, PutPoints, At, Inv, StepOK, OrderInv, Ordered
<1>2. CASE Refuse(u) /\ Return(w)
  BY <1>1, <1>2, Returned, RefuseMaps
<1>3. CASE /\ Write(u, snap[w]) /\ UNCHANGED budget
           /\ \/ job[w].users # {} /\ Go(w, "balance") /\ UNCHANGED job
              \/ /\ job[w].users = {} /\ job[w].kind = "contribute"
                 /\ Go(w, "findGoal") /\ UNCHANGED job
              \/ /\ job[w].users = {} /\ job[w].kind # "contribute"
                 /\ Return(w)
  <2>1. Borrows(w) /\ OrdersOf(w)' = OrdersOf(w)
    <3>1. CASE job[w].users # {} /\ Go(w, "balance") /\ UNCHANGED job
      <4>1. pc'[w] = "balance" /\ job[w].kind = "award"
        BY <1>1, <3>1 DEF Go, Inv, TypeOK
      <4>2. Stage(w) = "due" /\ Stage(w)' = "due"
        BY <3>1, <4>1 DEF Stage, At
      <4>3. Recipients(w)' = Recipients(w)
        BY <1>1, <3>1, <4>1, <4>2 DEF Recipients, At
      <4>4. OrdersOf(w)' = OrdersOf(w)
        BY <3>1, <4>2, <4>3 DEF OrdersOf, OrderOf
      <4> QED BY <4>1, <4>4, HoldsNothing
    <3>2. CASE /\ job[w].users = {} /\ job[w].kind = "contribute"
               /\ Go(w, "findGoal") /\ UNCHANGED job
      <4>1. pc'[w] = "findGoal"
        BY <3>2 DEF Go, Inv, TypeOK
      <4>2. Stage(w) = "pledged" /\ Stage(w)' = "pledged"
        BY <1>1, <3>2, <4>1 DEF Stage, At
      <4> QED BY <3>2, <4>1, <4>2, HoldsNothing, StageKept
    <3>3. CASE /\ job[w].users = {} /\ job[w].kind # "contribute" /\ Return(w)
      <4>1. OrdersOf(w) = {}
        BY <1>1, <3>3 DEF OrdersOf, Stage, Recipients, At
      <4> QED BY <3>3, <4>1, Returned
    <3> QED BY <1>3, <3>1, <3>2, <3>3
  <2>2. snap[w] \in Versions(u)
    <3>1. Holds(w) = u /\ Held(w) = snap[w]
      BY <1>1 DEF Holds, Held, At
    <3> QED BY <3>1, AmongVersions
  <2>3. Open' = Open /\ \A k \in Keys : Versions(k)' \subseteq Versions(k)
    BY <1>1, <1>3, <2>1, <2>2, OrdersSame, WriteKeeps
  <2> QED BY <1>1, <1>3, <2>3, IdleMaps DEF Failures
<1> QED BY <1>2, <1>3 DEF PutPoints

LEMMA CapOfferMaps ==
  ASSUME Inv, OrderInv, NEW w \in Workers, CapOffer(w)
  PROVE  Ledger!Next
<1> DEFINE j == job[w]
           u == j.user
           rest == TotalGoal[j.item] - snap[w][j.item]
           points == Least(Least(-j.delta, mem[u]), rest)
           o == [stage |-> "offered", user |-> u, item |-> j.item,
                 points |-> points, when |-> j.when]
<1>1. /\ Only(w) /\ pc[w] = "offer" /\ pc'[w] = "balance" /\ j \in Jobs
      /\ UNCHANGED <<mem, store, echo, hot, budget>>
      /\ j.kind = "contribute" /\ u \in Users /\ j.item \in Goals
      /\ snap[w] \in GoalList /\ snap[w][j.item] \in Int
  BY StepOnly DEF Step, CapOffer, At, Go, kv, Inv, TypeOK, StepOK
<1>2. job' = [job EXCEPT ![w].delta = -points]
  BY DEF CapOffer
<1>3. /\ points \in Int /\ points <= mem[u] /\ points <= rest /\ mem[u] \in Int
      /\ j.when \in Nat
  <2>1. mem[u] \in Int /\ j.delta \in Int /\ TotalGoal[j.item] \in Int
        /\ j.when \in Nat
    BY <1>1, KeyTypes, DataAssumption DEF Inv, TypeOK, Jobs
  <2>2. \A a, b \in Int : Least(a, b) \in Int /\ Least(a, b) <= a
                          /\ Least(a, b) <= b
    BY DEF Least
  <2> DEFINE p == Least(-j.delta, mem[u])
  <2>6. rest \in Int /\ -j.delta \in Int
    BY <1>1, <2>1
  <2>3. p \in Int /\ p <= mem[u] /\ rest \in Int
    BY <2>1, <2>2, <2>6
  <2>4. points = Least(p, rest)
    OBVIOUS
  <2> HIDE DEF p, points, rest
  <2>5. points \in Int /\ points <= p /\ points <= rest
    BY <2>2, <2>3, <2>4
  <2> QED BY <2>1, <2>3, <2>5
<1> HIDE DEF points
<1>4. job'[w] = [j EXCEPT !.delta = -points]
  BY <1>2 DEF Inv, TypeOK
<1>5. /\ job'[w].kind = "contribute" /\ job'[w].user = u
      /\ job'[w].item = j.item /\ job'[w].when = j.when
      /\ -job'[w].delta = points
  <2>1. -(-points) = points
    BY <1>3
  <2> QED BY <1>1, <1>4, <2>1 DEF Jobs
<1>6. Stage(w) = "none" /\ Stage(w)' = "offered"
  BY <1>1, <1>5 DEF Stage
<1>7. OrdersOf(w) = {} /\ OrdersOf(w)' = {o}
  <2>1. Recipients(w)' = {u}
    BY <1>5, <1>6 DEF Recipients
  <2>2. OrdersOf(w)' = {o}
    BY <1>5, <1>6, <2>1 DEF OrdersOf, OrderOf
  <2>3. OrdersOf(w) = {}
    BY <1>6 DEF OrdersOf
  <2> QED BY <2>2, <2>3
<1>8. Inv' /\ OrderInv'
  BY StepInv, StepOrders DEF Step
<1>9. o \in Open' /\ o \notin Open /\ Open' = Open \cup {o}
  BY <1>1, <1>7, <1>8, OrderOpens
<1>10. o \in Ledger!Order
  BY <1>1, <1>3 DEF Ledger!Order
<1>11. Ledger!Open(o)
  BY <1>9, <1>10 DEF Ledger!Open, Open
<1>12. Ledger!Keep
  BY <1>1, HoldsNothing, QuietKeeps, LedgerKeeps
<1>13. mem[u] \in Versions(u) /\ snap[w] \in Versions(GoalsKey)
  <2>1. Holds(w) = GoalsKey /\ Held(w) = snap[w]
    BY <1>1 DEF Holds, Held, At
  <2> QED BY <2>1, AmongVersions
<1>14. snap[w][j.item] # None
  BY <1>1, KeysAssumption
<1>15. u \in Keys /\ GoalsKey \in Keys
  BY <1>1, KeyTypes
<1>16. /\ o.stage = "offered" /\ o.item = j.item /\ o.user = u
       /\ o.points = points
  OBVIOUS
<1> HIDE DEF o
<1>17. \E b \in Versions(o.user) : o.points <= b
  BY <1>3, <1>13, <1>16
<1>18. \E goals \in Versions(GoalsKey) :
         goals[o.item] # None /\ o.points <= TotalGoal[o.item] - goals[o.item]
  BY <1>3, <1>13, <1>14, <1>16
<1>19. Ledger!Offer(o)
  BY <1>1, <1>11, <1>12, <1>15, <1>16, <1>17, <1>18
  DEF Ledger!Offer, Ledger!Rest
<1> QED BY <1>9, <1>19 DEF Ledger!Next, Open

LEMMA FindGoalMaps ==
  ASSUME Inv, OrderInv, NEW w \in Workers, FindGoal(w)
  PROVE  Ledger!Next
<1> DEFINE o == OrderOf(w, job[w].user)
<1>1. /\ Only(w) /\ pc[w] = "findGoal" /\ job[w].kind = "contribute"
      /\ UNCHANGED <<mem, store, echo, hot, budget>>
  BY StepOnly DEF Step, FindGoal, At, kv, Inv, StepOK
<1>2. Stage(w) = "pledged"
  BY <1>1 DEF Stage
<1>3. OrdersOf(w) = {o} /\ o.stage = "pledged" /\ o.item = job[w].item
  BY <1>2, OneOrder DEF OrderOf
<1>4. CASE Keep(w, mem[GoalsKey]) /\ Go(w, "addGoal") /\ UNCHANGED job
  <2>1. pc'[w] = "addGoal" /\ snap'[w] = mem[GoalsKey]
    BY <1>4 DEF Go, Keep, Inv, TypeOK
  <2>2. Stage(w)' = "pledged"
    BY <1>1, <1>4, <2>1 DEF Stage
  <2>3. Holds(w)' = GoalsKey /\ Held(w)' = mem[GoalsKey]
    BY <2>1 DEF Holds, Held, At
  <2>4. OrdersOf(w)' = OrdersOf(w) /\ Borrows(w)
    BY <1>2, <1>4, <2>2, <2>3, StageKept, AmongVersions DEF Borrows
  <2> QED BY <1>1, <2>4, OrdersSame, QuietKeeps, IdleMaps DEF Failures
<1>5. CASE mem[GoalsKey][job[w].item] = None /\ Return(w)
  <2>1. OrdersOf(w)' = OrdersOf(w) \ {o} /\ Borrows(w)
    BY <1>3, <1>5, Returned
  <2>2. o \in Open /\ Ledger!Close(o) /\ Ledger!Keep
    BY <1>1, <1>3, <2>1, OrderCloses, QuietKeeps, LedgerKeeps
  <2>3. GoalsKey \in Keys
    BY KeyTypes
  <2> HIDE DEF o
  <2>4. \E goals \in Versions(GoalsKey) : goals[o.item] = None
    BY <1>3, <1>5, AmongVersions
  <2>5. Ledger!Lapse(o)
    BY <1>1, <1>3, <2>2, <2>3, <2>4 DEF Ledger!Lapse, Ledger!Rest
  <2> QED BY <2>2, <2>5 DEF Ledger!Next, Open
<1> QED BY <1>4, <1>5 DEF FindGoal

LEMMA AddToGoalMaps ==
  ASSUME Inv, OrderInv, NEW w \in Workers, AddToGoal(w)
  PROVE  Ledger!Next
<1> DEFINE o == OrderOf(w, job[w].user)
<1>1. /\ Only(w) /\ pc[w] = "addGoal" /\ pc'[w] = "marshal" /\ job' = job
      /\ job[w].kind = "contribute" /\ job[w].item \in Goals
      /\ job[w].delta \in Int /\ snap[w] \in GoalList
      /\ UNCHANGED <<store, echo, hot, budget>>
  BY StepOnly DEF Step, AddToGoal, At, Go, Inv, TypeOK, StepOK, Jobs
<1>2. PICK list \in {snap[w], mem[GoalsKey]} :
        /\ list[job[w].item] # None
        /\ Set(GoalsKey, [list EXCEPT ![job[w].item] = @ - job[w].delta])
  BY DEF AddToGoal
<1>3. Stage(w) = "pledged" /\ Stage(w)' = "none"
  BY <1>1 DEF Stage
<1>4. /\ OrdersOf(w) = {o} /\ o.stage = "pledged" /\ o.item = job[w].item
      /\ o.points = -job[w].delta
  BY <1>3, OneOrder DEF OrderOf
<1>5. OrdersOf(w)' = OrdersOf(w) \ {o}
  BY <1>3, <1>4 DEF OrdersOf
<1>6. o \in Open /\ Ledger!Close(o)
  BY <1>1, <1>4, <1>5, OrderCloses
<1>7. GoalsKey \in Keys /\ GoalsKey # None /\ list \in GoalList
  BY <1>1, <1>2, KeyTypes, KeysAssumption DEF Inv, TypeOK
<1>8. list \in Versions(GoalsKey)
  <2>1. Holds(w) = GoalsKey /\ Held(w) = snap[w]
    BY <1>1 DEF Holds, Held, At
  <2> QED BY <1>2, <2>1, AmongVersions
<1>9. Holds(w)' = None
  BY <1>1, HoldsNothing
<1>10. Ledger!New(GoalsKey, [list EXCEPT ![job[w].item] = @ - job[w].delta])
  BY <1>1, <1>2, <1>7, <1>9, SetNews
<1> HIDE DEF o
<1>11. [list EXCEPT ![job[w].item] = @ - job[w].delta]
         = [list EXCEPT ![o.item] = @ + o.points]
  <2>1. list[job[w].item] \in Int
    BY <1>1, <1>2, <1>7 DEF GoalList
  <2>2. list[job[w].item] - job[w].delta = list[job[w].item] + o.points
    BY <1>1, <1>4, <2>1
  <2> QED BY <1>4, <2>2
<1>12. \E goals \in Versions(GoalsKey) :
         /\ goals[o.item] # None
         /\ Ledger!New(GoalsKey, [goals EXCEPT ![o.item] = @ + o.points])
  BY <1>2, <1>4, <1>8, <1>10, <1>11
<1>13. Ledger!Credit(o)
  BY <1>1, <1>4, <1>6, <1>7, <1>12 DEF Ledger!Credit, Ledger!Rest
<1> QED BY <1>6, <1>13 DEF Ledger!Next, Open

LEMMA StepMaps ==
  ASSUME Inv, OrderInv, NEW w \in Workers, Step(w)
  PROVE  Ledger!Next
BY LookingMaps, CheckCooldownMaps, AppendQueueMaps, UnlistRedeemMaps,
   SendEventMaps, SaveListMaps, ReadBalanceMaps, SetPointsMaps, PutPointsMaps,
   CapOfferMaps, FindGoalMaps, AddToGoalMaps DEF Step

-----------------------------------------------------------------------------
(* So are the other actions.                                               *)

\* A new operation and what it takes from the bounds.
LEMMA StartKeeps ==
  ASSUME Inv, NEW w \in Workers,
         NEW step \in {"cooldown", "append", "find", "offer", "balance"}, NEW j,
         Start(w, step, j), snap' = snap \/ \E v : Keep(w, v),
         NEW b \in {"command", "round"}, Spend(b), UNCHANGED kv,
         step = "offer" => Keep(w, mem[GoalsKey])
  PROVE  /\ Only(w) /\ pc'[w] = step /\ job'[w] = j /\ OrdersOf(w) = {}
         /\ job[w].kind = "none"
         /\ Ledger!Keep /\ \A k \in Keys : Versions(k)' \subseteq Versions(k)
         /\ UNCHANGED Failures /\ budget["command"] \in Nat
<1>1. Only(w) /\ pc'[w] = step /\ job'[w] = j /\ job[w] = NoJob
  BY StartOnly DEF Start, At, Inv, StepOK
<1>2. Borrows(w)
  <2>1. CASE step # "offer"
    BY <1>1, <2>1, HoldsNothing
  <2>2. CASE step = "offer"
    <3>1. snap'[w] = mem[GoalsKey]
      BY <2>2 DEF Keep, Inv, TypeOK
    <3>2. Holds(w)' = GoalsKey /\ Held(w)' = mem[GoalsKey]
      BY <1>1, <2>2, <3>1 DEF Holds, Held, At
    <3> QED BY <3>2, AmongVersions DEF Borrows
  <2> QED BY <2>1, <2>2
<1>3. OrdersOf(w) = {} /\ job[w].kind = "none"
  BY <1>1 DEF OrdersOf, Stage, NoJob
<1>4. UNCHANGED Failures /\ budget["command"] \in Nat
  BY SpendCounts, BudgetNames, CommandsLeft DEF Failures, Budgets
<1>5. \A k \in Keys : Versions(k)' \subseteq Versions(k)
  BY <1>1, <1>2, QuietKeeps DEF kv
<1> QED BY <1>1, <1>3, <1>4, <1>5, LedgerKeeps

LEMMA NothingNegated == \A d \in Int : d <= 0 /\ 0 <= d => -d = 0
OBVIOUS

LEMMA RedeemMaps ==
  ASSUME Inv, OrderInv, NEW w \in Handlers, NEW u \in Users, NEW r \in Rewards,
         CommandRedeem(w, u, r) \/ RPCCreate(w, u, r)
  PROVE  Ledger!Next
<1>1. w \in Workers /\ Inv' /\ OrderInv'
  <2>1. Next
    BY DEF Next, Begin
  <2> QED BY <2>1, NextInv, NextOrders DEF Workers
<1>2. CASE CommandRedeem(w, u, r)
  <2> DEFINE j == [kind |-> "redeem", users |-> {u}, user |-> u, item |-> r,
                   delta |-> -Price[r], when |-> budget["command"]]
             o == [stage |-> "asked", user |-> u, item |-> r,
                   points |-> Price[r], when |-> budget["command"]]
  <2>1. /\ Start(w, "cooldown", j) /\ Spend("command") /\ UNCHANGED kv
        /\ snap' = snap /\ hot' = hot /\ mem[u] - Price[r] >= 0
    BY <1>2 DEF CommandRedeem
  <2>2. /\ Only(w) /\ pc'[w] = "cooldown" /\ job'[w] = j /\ OrdersOf(w) = {}
        /\ Ledger!Keep /\ UNCHANGED Failures /\ budget["command"] \in Nat
    BY <1>1, <2>1, StartKeeps
  <2>3. Price[r] \in Int /\ mem[u] \in Int /\ u \in Keys
    BY DataAssumption, KeyTypes DEF Inv, TypeOK
  <2>4. -(-Price[r]) = Price[r] /\ Price[r] <= mem[u]
    BY <2>1, <2>3
  <2>5. Stage(w)' = "asked"
    BY <2>2 DEF Stage, At
  <2>6. OrdersOf(w)' = {o}
    BY <2>2, <2>4, <2>5 DEF OrdersOf, Recipients, OrderOf
  <2>7. o \in Open' /\ o \notin Open /\ Open' = Open \cup {o}
    BY <1>1, <2>2, <2>6, OrderOpens
  <2>8. o \in Ledger!Order
    BY <2>2, <2>3 DEF Ledger!Order
  <2>9. Ledger!Open(o)
    BY <2>7, <2>8 DEF Ledger!Open, Open
  <2>10. /\ o.stage = "asked" /\ o.item = r /\ o.user = u
         /\ o.points = Price[r]
    OBVIOUS
  <2> HIDE DEF o
  <2>11. \E b \in Versions(o.user) : o.points <= b
    BY <2>4, <2>10, AmongVersions
  <2>12. Ledger!Ask(o)
    BY <2>1, <2>2, <2>3, <2>9, <2>10, <2>11
    DEF Ledger!Ask, Ledger!Rest, Failures
  <2> QED BY <2>7, <2>12 DEF Ledger!Next, Open
<1>3. CASE RPCCreate(w, u, r)
  <2> DEFINE j == [kind |-> "create", users |-> {u}, user |-> u, item |-> r,
                   delta |-> 0, when |-> budget["command"]]
             o == [stage |-> "granted", user |-> u, item |-> r,
                   points |-> 0, when |-> budget["command"]]
  <2>1. /\ Start(w, "append", j) /\ Spend("command") /\ UNCHANGED kv
        /\ snap' = snap /\ hot' = hot
    BY <1>3 DEF RPCCreate
  <2>2. /\ Only(w) /\ pc'[w] = "append" /\ job'[w] = j /\ OrdersOf(w) = {}
        /\ Ledger!Keep /\ UNCHANGED Failures /\ budget["command"] \in Nat
    BY <1>1, <2>1, StartKeeps
  <2>3. Stage(w)' = "granted"
    BY <2>2 DEF Stage
  <2>4. OrdersOf(w)' = {o}
    <3>1. -job'[w].delta = 0
      <4>1. job'[w].delta \in Int /\ job'[w].delta <= 0 /\ 0 <= job'[w].delta
        BY <2>2
      <4> QED BY <4>1, NothingNegated
    <3>2. Recipients(w)' = {u}
      BY <2>2, <2>3 DEF Recipients
    <3> QED BY <2>2, <2>3, <3>1, <3>2 DEF OrdersOf, OrderOf
  <2>5. o \in Open' /\ o \notin Open /\ Open' = Open \cup {o}
    BY <1>1, <2>2, <2>4, OrderOpens
  <2>6. o \in Ledger!Order
    BY <2>2 DEF Ledger!Order
  <2>7. Ledger!Open(o)
    BY <2>5, <2>6 DEF Ledger!Open, Open
  <2>8. Ledger!Grant(o)
    BY <2>1, <2>2, <2>7 DEF Ledger!Grant, Ledger!Rest, Failures
  <2> QED BY <2>5, <2>8 DEF Ledger!Next, Open
<1> QED BY <1>2, <1>3

LEMMA BeginMaps ==
  ASSUME Inv, OrderInv, NEW w \in Handlers, Begin(w)
  PROVE  Ledger!Next
<1>1. w \in Workers
  BY DEF Workers
<1>2. ASSUME NEW j, NEW step \in {"find", "offer"}, Start(w, step, j),
             snap' = snap \/ \E v : Keep(w, v), Spend("command"), UNCHANGED kv,
             step = "offer" => Keep(w, mem[GoalsKey]), hot' = hot,
             step = "find" => j.kind = "remove",
             step = "offer" => j.kind = "contribute"
      PROVE  Ledger!Next
  <2>1. /\ Only(w) /\ pc'[w] = step /\ job'[w] = j /\ OrdersOf(w) = {}
        /\ UNCHANGED Failures /\ \A k \in Keys : Versions(k)' \subseteq Versions(k)
    BY <1>1, <1>2, StartKeeps
  <2>2. OrdersOf(w)' = {}
    BY <1>2, <2>1 DEF OrdersOf, Stage
  <2> QED BY <1>1, <1>2, <2>1, <2>2, OrdersSame, IdleMaps
<1>3. ASSUME NEW r, RPCRemove(w, r) PROVE Ledger!Next
  BY <1>2, <1>3 DEF RPCRemove
<1>4. ASSUME NEW u \in Users, NEW g \in Goals, NEW p \in Offers,
             CommandContribute(w, u, g, p)
      PROVE  Ledger!Next
  BY <1>2, <1>4 DEF CommandContribute
<1> QED BY <1>3, <1>4, RedeemMaps DEF Begin

LEMMA AwardRoundMaps ==
  ASSUME Inv, OrderInv, NEW U \in SUBSET Users, AwardRound(U)
  PROVE  Ledger!Next
<1> DEFINE j == [kind |-> "award", users |-> U, user |-> None, item |-> None,
                 delta |-> Award, when |-> 0]
<1>1. Ticker \in Workers /\ Start(Ticker, "balance", j) /\ hot' = hot
  BY DEF AwardRound, Workers
<1>2. /\ Only(Ticker) /\ pc'[Ticker] = "balance" /\ job'[Ticker] = j
      /\ job[Ticker].kind = "none" /\ OrdersOf(Ticker) = {}
      /\ Ledger!Keep /\ UNCHANGED Failures
  BY <1>1, StartKeeps DEF AwardRound
<1>3. Stage(Ticker)' = "due" /\ Recipients(Ticker)' = U
  <2>1. Stage(Ticker)' = "due"
    BY <1>2 DEF Stage
  <2> QED BY <1>2, <2>1 DEF Recipients, At
<1>4. OrdersOf(Ticker)' = {[stage |-> "due", user |-> u, item |-> None,
                            points |-> -Award, when |-> 0] : u \in U}
  BY <1>2, <1>3 DEF OrdersOf, OrderOf
<1>5. Open' = Open \cup OrdersOf(Ticker)'
  BY <1>1, <1>2, OpenChanges
<1>6. \A o \in Open : o.stage # "due"
  <2> SUFFICES ASSUME NEW w \in Workers, NEW o \in OrdersOf(w), o.stage = "due"
               PROVE  FALSE
    BY DEF Open
  <2>1. job[w].kind = "award"
    BY OrderParts
  <2>2. w = Ticker
    BY <2>1 DEF OrderInv, Ordered
  <2> QED BY <1>2, <2>1, <2>2
<1>7. Ledger!Round(U)
  BY <1>1, <1>2, <1>4, <1>5, <1>6
  DEF Ledger!Round, Ledger!Rest, Failures, Open
<1> QED BY <1>7 DEF Ledger!Next

\* Nobody moves.
LEMMA StillOrders ==
  ASSUME UNCHANGED threads
  PROVE  /\ Open' = Open
         /\ \A w \in Workers : Holds(w)' = Holds(w) /\ Held(w)' = Held(w)
BY DEF threads, Open, OrdersOf, OrderOf, Stage, Recipients, At, Holds, Held,
       ListKey

LEMMA StillWithin ==
  ASSUME UNCHANGED threads, NEW k, NEW V, Versions(k) \subseteq V,
         mem'[k] \in V, store'[k] \in V, Pushes(k)' \subseteq V
  PROVE  Versions(k)' \subseteq V
BY StillOrders, AmongVersions DEF Versions, Pushes

LEMMA UpdateMaps ==
  ASSUME Inv, NEW k \in Keys, Update(k)
  PROVE  Ledger!Next
<1>1. /\ UNCHANGED <<store, hot, budget>> /\ UNCHANGED threads
      /\ echo[k] # <<>> /\ echo[k] \in Seq(Value(k))
      /\ echo'[k] = Tail(echo[k]) /\ mem'[k] = Head(echo[k])
      /\ \A i \in Keys \ {k} : echo'[i] = echo[i] /\ mem'[i] = mem[i]
  BY DEF Update, Set, Inv, TypeOK
<1>2. Pushes(k)' \subseteq Pushes(k) /\ Head(echo[k]) \in Pushes(k)
  BY <1>1, TailPushes DEF Pushes
<1>3. ASSUME NEW i \in Keys PROVE Versions(i)' \subseteq Versions(i)
  <2>1. CASE i = k
    BY <1>1, <1>2, <2>1, AmongVersions, StillWithin
  <2>2. CASE i # k
    <3>1. Pushes(i)' = Pushes(i)
      BY <1>1, <2>2 DEF Pushes
    <3> QED BY <1>1, <2>2, <3>1, AmongVersions, StillWithin
  <2> QED BY <2>1, <2>2
<1> QED BY <1>1, <1>3, StillOrders, IdleMaps DEF Failures

\* Another client writes a key.
LEMMA ClientNews ==
  ASSUME Inv, NEW k \in Keys, NEW v, Write(k, v), mem' = mem, UNCHANGED threads
  PROVE  Ledger!New(k, v)
<1>1. /\ store'[k] = v /\ echo'[k] = Append(echo[k], v)
      /\ echo[k] \in Seq(Value(k))
      /\ \A i \in Keys \ {k} : echo'[i] = echo[i] /\ store'[i] = store[i]
  BY DEF Write, Inv, TypeOK
<1>2. Versions(k)' \subseteq Versions(k) \cup {v}
  <2>1. Pushes(k)' \subseteq Pushes(k) \cup {v}
    BY <1>1, AppendPushes DEF Pushes
  <2>2. /\ Versions(k) \subseteq Versions(k) \cup {v}
        /\ mem'[k] \in Versions(k) \cup {v}
        /\ store'[k] \in Versions(k) \cup {v}
        /\ Pushes(k)' \subseteq Versions(k) \cup {v}
    BY <1>1, <2>1, AmongVersions
  <2> QED BY <2>2, StillWithin
<1>3. ASSUME NEW i \in Keys \ {k} PROVE Versions(i)' \subseteq Versions(i)
  <2>1. Pushes(i)' = Pushes(i)
    BY <1>1 DEF Pushes
  <2> QED BY <1>1, <2>1, AmongVersions, StillWithin
<1>4. v \in Versions(k)'
  BY <1>1 DEF Versions
<1> QED BY <1>2, <1>3, <1>4, LedgerNews

LEMMA ClientMaps ==
  ASSUME Inv,
         \/ \E u \in Users, p \in ClientPoints : ClientSetsPoints(u, p)
         \/ \E list \in ClientGoals : ClientSavesGoals(list)
  PROVE  Ledger!Next
<1>1. UNCHANGED Failures /\ hot' = hot /\ Open' = Open
  BY SpendCounts, BudgetNames, StillOrders
  DEF ClientSetsPoints, ClientSavesGoals, Failures, Budgets
<1>2. ASSUME NEW u \in Users, NEW p \in ClientPoints, ClientSetsPoints(u, p)
      PROVE  Ledger!Next
  <2>1. Ledger!New(u, p)
    BY <1>2, KeyTypes, ClientNews DEF ClientSetsPoints
  <2>2. Ledger!ClientSetsPoints(u, p)
    BY <1>1, <2>1 DEF Ledger!ClientSetsPoints, Ledger!Rest, Failures, Open
  <2> QED BY <2>2 DEF Ledger!Next
<1>3. ASSUME NEW list \in ClientGoals, ClientSavesGoals(list)
      PROVE  Ledger!Next
  <2>1. Ledger!New(GoalsKey, list)
    BY <1>3, KeyTypes, ClientNews DEF ClientSavesGoals
  <2>2. Ledger!ClientSavesGoals(list)
    BY <1>1, <2>1 DEF Ledger!ClientSavesGoals, Ledger!Rest, Failures, Open
  <2> QED BY <2>2 DEF Ledger!Next
<1> QED BY <1>2, <1>3

LEMMA CooldownOverMaps ==
  ASSUME Inv, NEW r \in Rewards, CooldownOver(r)
  PROVE  Ledger!Next
<1>1. UNCHANGED threads /\ UNCHANGED <<mem, store, echo, budget>>
      /\ hot' = hot \ {r}
  BY DEF CooldownOver, kv
<1>2. \A k \in Keys : Versions(k)' \subseteq Versions(k)
  BY <1>1, AmongVersions, StillWithin DEF Pushes
<1> QED BY <1>1, <1>2, StillOrders, CoolMaps DEF Failures

LEMMA RestartMaps ==
  ASSUME Inv, Restart
  PROVE  Ledger!Next
<1>1. /\ mem' = store /\ store' = store /\ hot' = {}
      /\ \A k \in Keys : echo'[k] = <<>>
      /\ \A w \in Workers : pc'[w] = "idle" /\ job'[w] = NoJob
  BY DEF Restart
<1>2. Open' = {}
  BY <1>1 DEF Open, OrdersOf, Stage, NoJob
<1>3. ASSUME NEW k \in Keys PROVE Versions(k)' \subseteq Versions(k)
  <2>1. k # None
    BY KeysAssumption DEF Keys
  <2>2. \A w \in Workers : Holds(w)' # k
    BY <1>1, <2>1 DEF Holds
  <2>3. Versions(k)' \subseteq {mem'[k], store'[k]}
    BY <1>1, <2>2 DEF Versions
  <2> QED BY <1>1, <2>3, AmongVersions
<1>4. /\ budget["restart"] > 0 /\ budget'["restart"] = budget["restart"] - 1
      /\ budget'["failure"] = budget["failure"]
  BY SpendCounts DEF Restart, Budgets
<1>5. Ledger!Stop
  BY <1>1, <1>2, <1>3, <1>4, LedgerKeeps DEF Ledger!Stop, Open
<1> QED BY <1>5 DEF Ledger!Next

LEMMA InitMaps == Init => Ledger!Init
<1> SUFFICES ASSUME Init PROVE Ledger!Init
  OBVIOUS
<1>1. Open = {} /\ \A w \in Workers : Holds(w) = None
  BY DEF Init, Open, OrdersOf, Stage, NoJob, Holds
<1>2. ASSUME NEW k \in Keys PROVE Versions(k) = {store[k]}
  <2>1. k # None
    BY KeysAssumption DEF Keys
  <2> QED BY <1>1, <2>1 DEF Init, Versions
<1>3. [k \in Keys |-> Versions(k)] =
        [k \in Keys |-> CASE k = QueueKey -> {{}}
                          [] k = GoalsKey -> {[g \in Goals |-> 0]}
                          [] OTHER -> {StartPoints}]
  BY <1>2 DEF Init
<1> QED BY <1>1, <1>3 DEF Init, Ledger!Init, Ledger!Keys, Keys, Open

LEMMA NextMaps ==
  Inv /\ OrderInv /\ [Next]_vars => [Ledger!Next]_Ledger!vars
<1> SUFFICES ASSUME Inv, OrderInv, [Next]_vars PROVE Ledger!Next
  OBVIOUS
<1>1. CASE UNCHANGED vars
  <2>1. UNCHANGED threads /\ UNCHANGED <<mem, store, echo, hot, budget>>
    BY <1>1 DEF vars, threads
  <2>2. \A k \in Keys : Versions(k)' \subseteq Versions(k)
    BY <2>1, AmongVersions, StillWithin DEF Pushes
  <2> QED BY <2>1, <2>2, StillOrders, IdleMaps DEF Failures
<1> QED BY <1>1, StepMaps, BeginMaps, UpdateMaps, AwardRoundMaps, ClientMaps,
           CooldownOverMaps, RestartMaps DEF Next, Environment

\* Whatever interleaves, is refused or cut off by a stop: redeems are checked,
\* queued, published and charged once and in this order, contributions are
\* taken and credited once with the same points, a round awards nobody twice,
\* and a second half is left out only for a refused write, a stop or a goal
\* that is gone.
THEOREM KeepsTheLedger == Spec => ImplementsLedger
<1>1. Init => Inv /\ OrderInv
  BY InitInv, InitOrders
<1>2. Inv /\ OrderInv /\ [Next]_vars => Inv' /\ OrderInv'
  BY NextInv, NextOrders
<1> QED BY <1>1, <1>2, InitMaps, NextMaps, PTL
        DEF Spec, ImplementsLedger, Ledger!Spec
=============================================================================
