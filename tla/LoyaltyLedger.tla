--------------------------- MODULE LoyaltyLedger ---------------------------
(***************************************************************************)
(* What the loyalty system promises its viewers although it takes no lock. *)
(* Balances, queue and goals are each known in several versions: someone   *)
(* may hold, store or wait for an older one, and a change is made to any   *)
(* of them.  What is exact is the bookkeeping of orders.  Whoever orders a *)
(* reward could pay it, the order is declined if the reward is cooling     *)
(* down, otherwise enters the queue once, is published, and is then owed   *)
(* until the price is taken once.  A contribution is offered, taken once   *)
(* and credited once, with the same points.  A round of awards gives each  *)
(* viewer one award.  An order ends early only if a database write is      *)
(* refused, which ends one operation, if the program stops, or if its goal *)
(* is gone.                                                                *)
(***************************************************************************)
EXTENDS Integers

CONSTANTS Users, Rewards, Goals, QueueKey, GoalsKey, None,
          Price, TotalGoal, Award, StartPoints, ClientPoints, ClientGoals,
          Refusals, Stops \* how many writes are refused, and stops happen

VARIABLES
  versions, \* by key, the values that are stored, on their way or held
  open,     \* orders that are not completed
  cooling,  \* rewards that are cooling down
  refusals, \* refused writes still to come
  stops     \* stops of the program still to come

vars == <<versions, open, cooling, refusals, stops>>

Keys == Users \cup {QueueKey, GoalsKey}
Order == [stage : {"asked", "admitted", "granted", "queued", "owed", "due",
                   "offered", "pledged"},
          user : Users, item : Rewards \cup Goals \cup {None}, points : Int,
          when : Nat]
Redeem(o) == [user |-> o.user, reward |-> o.item, when |-> o.when]

Init ==
  /\ versions = [k \in Keys |-> CASE k = QueueKey -> {{}}
                                  [] k = GoalsKey -> {[g \in Goals |-> 0]}
                                  [] OTHER -> {StartPoints}]
  /\ open = {} /\ cooling = {}
  /\ refusals = Refusals /\ stops = Stops

-----------------------------------------------------------------------------
\* Versions are forgotten at any time.
Forget(K) == \A k \in K : versions'[k] \subseteq versions[k]
New(k, v) ==
  /\ v \in versions'[k] /\ versions'[k] \subseteq versions[k] \cup {v}
  /\ Forget(Keys \ {k})
Keep == Forget(Keys)

Close(o) == o \in open /\ open' = open \ {o}
Open(o) == o \in Order \ open /\ open' = open \cup {o}
Move(o, stage) ==
  o \in open /\ open' = (open \ {o}) \cup {[o EXCEPT !.stage = stage]}
Rest == UNCHANGED <<cooling, refusals, stops>>

Ask(o) ==
  /\ o.stage = "asked" /\ o.item \in Rewards /\ o.points = Price[o.item]
  /\ \E balance \in versions[o.user] : o.points <= balance
  /\ Open(o) /\ Keep /\ Rest

Decline(o) ==
  /\ o.stage = "asked" /\ o.item \in cooling
  /\ Close(o) /\ Keep /\ Rest

Admit(o) ==
  /\ o.stage = "asked" /\ o.item \notin cooling
  /\ Move(o, "admitted") /\ Keep /\ Rest

\* An order that a client makes for a viewer is free.
Grant(o) ==
  /\ o.stage = "granted" /\ o.item \in Rewards /\ o.points = 0
  /\ Open(o) /\ Keep /\ Rest

Enqueue(o) ==
  /\ o.stage \in {"admitted", "granted"}
  /\ IF o.stage = "admitted" THEN Move(o, "queued") ELSE Close(o)
  /\ \E queue \in versions[QueueKey] : New(QueueKey, queue \cup {Redeem(o)})
  /\ Rest

Publish(o) == o.stage = "queued" /\ Move(o, "owed") /\ Keep /\ Rest

\* A client takes a redeem off the queue.
Remove(r) ==
  /\ \E queue \in versions[QueueKey] : New(QueueKey, queue \ {r})
  /\ UNCHANGED open /\ Rest

Round(U) ==
  /\ \A o \in open : o.stage # "due"
  /\ open' = open \cup {[stage |-> "due", user |-> u, item |-> None,
                         points |-> -Award, when |-> 0] : u \in U}
  /\ Keep /\ Rest

Offer(o) ==
  /\ o.stage = "offered" /\ o.item \in Goals
  /\ \E balance \in versions[o.user] : o.points <= balance
  /\ \E goals \in versions[GoalsKey] :
       goals[o.item] # None /\ o.points <= TotalGoal[o.item] - goals[o.item]
  /\ Open(o) /\ Keep /\ Rest

\* The price, the award or the contribution of an order changes the balance.
Pay(o) ==
  /\ o.stage \in {"owed", "due", "offered"}
  /\ IF o.stage = "offered" THEN Move(o, "pledged") ELSE Close(o)
  /\ \E balance \in versions[o.user] : New(o.user, balance - o.points)
  /\ Rest

Credit(o) ==
  /\ o.stage = "pledged" /\ Close(o)
  /\ \E goals \in versions[GoalsKey] :
       /\ goals[o.item] # None
       /\ New(GoalsKey, [goals EXCEPT ![o.item] = @ + o.points])
  /\ Rest

Lapse(o) ==
  /\ o.stage = "pledged" /\ Close(o)
  /\ \E goals \in versions[GoalsKey] : goals[o.item] = None
  /\ Keep /\ Rest

Refuse ==
  /\ refusals > 0 /\ refusals' = refusals - 1
  /\ open' = open \/ \E o \in open : open' = {p \in open : p.when # o.when}
  /\ Keep /\ UNCHANGED <<cooling, stops>>

Stop ==
  /\ stops > 0 /\ stops' = stops - 1
  /\ open' = {} /\ cooling' = {}
  /\ Keep /\ UNCHANGED refusals

ClientSetsPoints(u, points) == Rest /\ UNCHANGED open /\ New(u, points)
ClientSavesGoals(list) == Rest /\ UNCHANGED open /\ New(GoalsKey, list)

Cool ==
  /\ \E r \in Rewards : cooling' \in {cooling \cup {r}, cooling \ {r}}
  /\ UNCHANGED <<open, refusals, stops>> /\ Keep

Idle == Rest /\ UNCHANGED open /\ Keep

Next ==
  \/ Idle \/ Cool
  \/ \E o \in open : \/ Decline(o) \/ Admit(o) \/ Enqueue(o) \/ Publish(o)
                     \/ Pay(o) \/ Credit(o) \/ Lapse(o)
  \/ \E o \in open' : Ask(o) \/ Grant(o) \/ Offer(o)
  \/ \E U \in SUBSET Users : Round(U)
  \/ \E queue \in versions[QueueKey] : \E r \in queue : Remove(r)
  \/ Refuse \/ Stop
  \/ \E u \in Users, p \in ClientPoints : ClientSetsPoints(u, p)
  \/ \E list \in ClientGoals : ClientSavesGoals(list)

Spec == Init /\ [][Next]_vars
=============================================================================
