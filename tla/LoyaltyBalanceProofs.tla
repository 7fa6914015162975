------------------------ MODULE LoyaltyBalanceProofs ------------------------
(***************************************************************************)
(* Points are only taken for redeems that were published, whatever the     *)
(* database refuses and whenever the program stops.                        *)
(* An update of a balance is only lost to another update of the same       *)
(* balance that it overlaps, or to a stop of the program before it is      *)
(* saved.                                                                  *)
(***************************************************************************)
EXTENDS LoyaltyProofs

-----------------------------------------------------------------------------
(* Taking points for a redeem.                                             *)

\* A redeem has one payer, and is published before its cooldown starts.
PaidFor(w) ==
  job[w].kind = "redeem" =>
    /\ job[w].users \subseteq {job[w].user}
    /\ pc[w] \in {"heat", "marshal", "save", "balance", "setPoints", "putPoints"}
         => RedeemOf(w) \in announced

PaidInv == charged \subseteq announced /\ \A w \in Workers : PaidFor(w)

LEMMA InitPaid == Init => PaidInv
BY DEF Init, PaidInv, PaidFor, NoJob

LEMMA OthersPaid ==
  ASSUME PaidInv, NEW w \in Workers, Only(w), announced \subseteq announced',
         charged' \subseteq announced', PaidFor(w)'
  PROVE  PaidInv'
<1>1. ASSUME NEW x \in Workers \ {w} PROVE PaidFor(x)'
  BY DEF PaidInv, PaidFor, Only, RedeemOf
<1> QED BY <1>1 DEF PaidInv

LEMMA ReturnPaid ==
  ASSUME Inv, NEW w \in Workers, Return(w)
  PROVE  PaidFor(w)'
BY DEF Return, PaidFor, NoJob, Inv, TypeOK

\* A goroutine whose job stays the same.
LEMMA SameJobPaid ==
  ASSUME PaidInv, NEW w \in Workers, job'[w] = job[w],
         announced \subseteq announced',
         \/ pc'[w] \notin {"heat", "marshal", "save", "balance", "setPoints",
                           "putPoints"}
         \/ pc[w] \in {"heat", "marshal", "save", "balance", "setPoints",
                       "putPoints"}
         \/ job[w].kind # "redeem"
         \/ RedeemOf(w) \in announced'
  PROVE  PaidFor(w)'
BY DEF PaidInv, PaidFor, RedeemOf

LEMMA StepPaid ==
  ASSUME Inv, PaidInv, NEW w \in Workers, Step(w)
  PROVE  PaidInv'
<1> DEFINE Paying == {"heat", "marshal", "save", "balance", "setPoints",
                      "putPoints"}
<1>0. Only(w)
  BY StepOnly
<1>1. CASE CheckCooldown(w) \/ ReadQueue(w) \/ AppendQueue(w) \/ FindRedeem(w)
           \/ FindGoal(w)
  <2>1. UNCHANGED <<announced, charged>>
    BY <1>1 DEF CheckCooldown, ReadQueue, AppendQueue, FindRedeem, FindGoal,
                history
  <2>2. \/ Return(w)
        \/ /\ job' = job
           /\ \E s \in {"append", "publish", "event", "unlist", "addGoal"} :
                Go(w, s)
    BY <1>1 DEF CheckCooldown, ReadQueue, AppendQueue, FindRedeem, FindGoal
  <2>3. CASE job' = job
    <3>1. pc'[w] \notin Paying
      BY <2>2 DEF Return, Go, Inv, TypeOK
    <3> QED BY <1>0, <2>1, <2>3, <3>1, SameJobPaid, OthersPaid DEF PaidInv
  <2> QED BY <1>0, <2>1, <2>2, <2>3, ReturnPaid, OthersPaid DEF PaidInv
<1>6. CASE UnlistRedeem(w) \/ AddToGoal(w)
  <2>1. UNCHANGED <<announced, charged, job>>
    BY <1>6 DEF UnlistRedeem, AddToGoal, history
  <2>2. job[w].kind # "redeem"
    BY <1>6 DEF UnlistRedeem, AddToGoal, At, Inv, StepOK
  <2> QED BY <1>0, <2>1, <2>2, SameJobPaid, OthersPaid DEF PaidInv
<1>7. CASE CapOffer(w)
  <2>1. job[w] \in Jobs /\ job[w].kind = "contribute"
    BY <1>7 DEF CapOffer, At, Inv, TypeOK, StepOK
  <2>2. PICK d : job' = [job EXCEPT ![w].delta = d]
    BY <1>7 DEF CapOffer
  <2>3. job'[w] = [job[w] EXCEPT !.delta = d]
    BY <2>2 DEF Inv, TypeOK
  <2>4. job'[w].kind = "contribute"
    BY <2>1, <2>3 DEF Jobs
  <2>5. UNCHANGED <<announced, charged>>
    BY <1>7 DEF CapOffer, history
  <2> QED BY <1>0, <2>4, <2>5, OthersPaid DEF PaidFor, PaidInv
<1>2. CASE StartCooldown(w) \/ ReadList(w) \/ SaveList(w) \/ PutPoints(w)
  <2>1. UNCHANGED <<announced, charged>> /\ pc[w] \in Paying
    BY <1>2 DEF StartCooldown, ReadList, SaveList, PutPoints, history, At
  <2>2. job' = job \/ Return(w)
    BY <1>2 DEF StartCooldown, ReadList, SaveList, PutPoints
  <2>3. PaidFor(w)'
    BY <2>1, <2>2, SameJobPaid, ReturnPaid
  <2> QED BY <1>0, <2>1, <2>3, OthersPaid DEF PaidInv
<1>3. CASE SendEvent(w)
  <2>1. announced \subseteq announced' /\ charged' = charged
    BY <1>3 DEF SendEvent
  <2>2. PaidFor(w)'
    BY <1>3, <2>1, SameJobPaid, ReturnPaid DEF SendEvent
  <2> QED BY <1>0, <2>1, <2>2, OthersPaid DEF PaidInv
<1>4. CASE ReadBalance(w)
  <2>1. PICK u \in job[w].users :
          job' = [job EXCEPT ![w].user = u, ![w].users = @ \ {u}]
    BY <1>4 DEF ReadBalance
  <2>2. /\ job[w] \in Jobs /\ pc[w] = "balance"
        /\ UNCHANGED <<announced, charged>>
    BY <1>4 DEF ReadBalance, At, history, Inv, TypeOK
  <2>3. job'[w] = [job[w] EXCEPT !.user = u, !.users = @ \ {u}]
    BY <2>1 DEF Inv, TypeOK
  <2>4. /\ job'[w].kind = job[w].kind /\ job'[w].item = job[w].item
        /\ job'[w].when = job[w].when /\ job'[w].user = u
        /\ job'[w].users = job[w].users \ {u}
    BY <2>2, <2>3 DEF Jobs
  <2>5. CASE job[w].kind = "redeem"
    <3>1. job[w].user = u /\ RedeemOf(w) \in announced
      BY <2>1, <2>2, <2>5 DEF PaidInv, PaidFor
    <3>2. RedeemOf(w)' = RedeemOf(w)
      BY <2>4, <3>1 DEF RedeemOf
    <3> QED BY <1>0, <2>1, <2>2, <2>4, <2>5, <3>1, <3>2, OthersPaid
            DEF PaidInv, PaidFor
  <2>6. CASE job[w].kind # "redeem"
    BY <1>0, <2>2, <2>4, <2>6, OthersPaid DEF PaidInv, PaidFor
  <2> QED BY <2>5, <2>6
<1>5. CASE SetPoints(w)
  <2>1. job' = job /\ announced' = announced /\ pc[w] = "setPoints"
    BY <1>5 DEF SetPoints, At
  <2>2. charged' \subseteq announced
    BY <1>5, <2>1 DEF SetPoints, PaidInv, PaidFor
  <2>3. PaidFor(w)'
    BY <2>1, SameJobPaid
  <2> QED BY <1>0, <2>1, <2>2, <2>3, OthersPaid
<1> QED BY <1>1, <1>2, <1>3, <1>4, <1>5, <1>6, <1>7 DEF Step

LEMMA NextPaid == Inv /\ PaidInv /\ [Next]_vars => PaidInv'
<1> SUFFICES ASSUME Inv, PaidInv, [Next]_vars PROVE PaidInv'
  OBVIOUS
<1>1. ASSUME NEW w \in Workers, NEW step \in {"cooldown", "append", "find",
             "offer", "balance"}, NEW j, Start(w, step, j), UNCHANGED history,
             snap' = snap \/ \E v : Keep(w, v),
             \/ step \in {"cooldown", "append"} /\ j.users \subseteq {j.user}
             \/ j.kind # "redeem"
      PROVE  PaidInv'
  <2>1. Only(w) /\ pc'[w] = step /\ job'[w] = j
    BY <1>1, StartOnly
  <2>2. PaidFor(w)'
    BY <1>1, <2>1 DEF PaidFor
  <2> QED BY <1>1, <2>1, <2>2, OthersPaid DEF history, PaidInv
<1>2. ASSUME NEW w \in Handlers, Begin(w) PROVE PaidInv'
  <2>1. w \in Workers
    BY DEF Workers
  <2>2. ASSUME NEW u \in Users, NEW r \in Rewards,
               CommandRedeem(w, u, r) \/ RPCCreate(w, u, r)
        PROVE  PaidInv'
    BY <1>1, <2>1, <2>2 DEF CommandRedeem, RPCCreate
  <2>3. ASSUME NEW r, RPCRemove(w, r) PROVE PaidInv'
    BY <1>1, <2>1, <2>3 DEF RPCRemove
  <2>4. ASSUME NEW u \in Users, NEW g \in Goals, NEW p \in Offers,
               CommandContribute(w, u, g, p)
        PROVE  PaidInv'
    BY <1>1, <2>1, <2>4 DEF CommandContribute
  <2> QED BY <1>2, <2>2, <2>3, <2>4 DEF Begin
<1>3. ASSUME NEW U \in SUBSET Users, AwardRound(U) PROVE PaidInv'
  BY <1>1, <1>3 DEF AwardRound, Workers
<1>4. CASE UNCHANGED <<threads, announced, charged>>
  BY <1>4 DEF threads, PaidInv, PaidFor, RedeemOf
<1>5. ASSUME NEW k \in Keys, Update(k) PROVE PaidInv'
  BY <1>4, <1>5 DEF Update, history
<1>6. ASSUME \/ \E u \in Users, p \in ClientPoints : ClientSetsPoints(u, p)
             \/ \E list \in ClientGoals : ClientSavesGoals(list)
      PROVE  PaidInv'
  BY <1>4, <1>6 DEF ClientSetsPoints, ClientSavesGoals, history
<1>7. ASSUME NEW r \in Rewards, CooldownOver(r) PROVE PaidInv'
  BY <1>4, <1>7 DEF CooldownOver, history
<1>8. CASE Restart
  BY <1>8 DEF Restart, PaidInv, PaidFor, NoJob
<1>9. CASE UNCHANGED vars
  BY <1>4, <1>9 DEF vars, threads
<1> QED BY <1>2, <1>3, <1>5, <1>6, <1>7, <1>8, <1>9, StepPaid
        DEF Next, Environment

\* AddRedeem comes before TakePoints and its errors end the redeem: no
\* interleaving, refusal or restart makes the program take the price of a
\* redeem that the streamer's dashboard and extensions were not told about.
THEOREM PaidOnlyIfPublished == Spec => []ChargedWereAnnounced
<1>1. Init => Inv /\ PaidInv
  BY InitInv, InitPaid
<1>2. Inv /\ PaidInv /\ [Next]_vars => Inv' /\ PaidInv'
  BY NextInv, NextPaid
<1>3. PaidInv => ChargedWereAnnounced
  BY DEF PaidInv, ChargedWereAnnounced
<1> QED BY <1>1, <1>2, <1>3, PTL DEF Spec

-----------------------------------------------------------------------------
(* The sums of a viewer's points.                                          *)

\* BalancesAddUp speaks of moments at which no push is on its way.  Between
\* them at most one goroutine updates the balance of a viewer who was in no
\* race, no push comes in while it does, what it computed is what the ledger
\* says, and so is the last push of the balance.
Computed(w, u) ==
  Updating(w, u) =>
    /\ echo[u] = <<>>
    /\ snap[w] = IF At(w, "setPoints") THEN ledger[u] + job[w].delta
                                       ELSE ledger[u]
Alone(u) == \A w, x \in Workers : Updating(w, u) /\ Updating(x, u) => w = x
Summed(u) ==
  IF echo[u] = <<>> THEN mem[u] = ledger[u]
  ELSE echo[u][Len(echo[u])] = ledger[u]
Exact(u) ==
  u \notin crossed => /\ Summed(u) /\ Alone(u)
                      /\ \A w \in Workers : Computed(w, u)
ExactInv == \A u \in Users : Exact(u)

LEMMA ExactAddsUp == ExactInv => BalancesAddUp
BY DEF ExactInv, Exact, Summed, BalancesAddUp

LEMMA InitExact == Init => ExactInv
<1> SUFFICES ASSUME Init, NEW u \in Users PROVE Exact(u)
  BY DEF ExactInv
<1>1. echo[u] = <<>> /\ mem[u] = ledger[u]
  BY KeyTypes, KeysAssumption DEF Init
<1>2. \A w \in Workers : ~Updating(w, u)
  BY DEF Init, Updating
<1> QED BY <1>1, <1>2 DEF Exact, Summed, Alone, Computed

-----------------------------------------------------------------------------
(* What can happen to one viewer.                                          *)

\* Nothing of the viewer changes, and if w is updating the balance, it was
\* before and goes on with the same numbers.
LEMMA SameExact ==
  ASSUME NEW u \in Users, Exact(u), NEW w \in Workers, Only(w),
         mem'[u] = mem[u], echo'[u] = echo[u], ledger'[u] = ledger[u],
         crossed \subseteq crossed',
         Updating(w, u)' => /\ Updating(w, u) /\ pc'[w] = pc[w]
                            /\ snap'[w] = snap[w] /\ job'[w] = job[w]
  PROVE  Exact(u)'
<1>1. \A x \in Workers : Updating(x, u)' => Updating(x, u)
  BY DEF Only, Updating
<1>2. \A x \in Workers : Updating(x, u)' =>
        pc'[x] = pc[x] /\ snap'[x] = snap[x] /\ job'[x] = job[x]
  BY DEF Only
<1> QED BY <1>1, <1>2 DEF Exact, Summed, Alone, Computed, At

\* The goroutine that updates the balance, alone if the viewer is in no race,
\* takes a step of the update.
LEMMA OwnerExact ==
  ASSUME NEW u \in Users, NEW w \in Workers, Only(w),
         u \notin crossed' =>
           /\ \A x \in Workers \ {w} : ~Updating(x, u)
           /\ Summed(u)' /\ Computed(w, u)'
  PROVE  Exact(u)'
<1> SUFFICES ASSUME u \notin crossed' PROVE Exact(u)'
  BY DEF Exact
<1>1. \A x \in Workers \ {w} : ~Updating(x, u)'
  BY DEF Only, Updating
<1> QED BY <1>1 DEF Exact, Alone, Computed

\* No goroutine moves.
LEMMA StillExact ==
  ASSUME NEW u \in Users, UNCHANGED threads, Exact(u),
         crossed \subseteq crossed',
         u \notin crossed' =>
           /\ Summed(u)'
           /\ \/ ledger'[u] = ledger[u] /\ (echo[u] = <<>> => echo'[u] = <<>>)
              \/ \A w \in Workers : ~Updating(w, u)
  PROVE  Exact(u)'
<1> SUFFICES ASSUME u \notin crossed' PROVE Exact(u)'
  BY DEF Exact
<1>1. Summed(u)' /\ Alone(u)'
  BY DEF Exact, Alone, Updating, threads
<1>2. \A w \in Workers : Computed(w, u)'
  BY DEF Exact, Computed, Updating, At, threads
<1> QED BY <1>1, <1>2 DEF Exact

-----------------------------------------------------------------------------
(* The steps of a goroutine.                                               *)

\* Steps that neither change a balance nor are part of an update.
LEMMA OtherSteps ==
  ASSUME Inv, ExactInv, NEW w \in Workers,
         \/ CheckCooldown(w) \/ ReadQueue(w) \/ SendEvent(w) \/ StartCooldown(w)
         \/ ReadList(w) \/ FindRedeem(w) \/ CapOffer(w) \/ FindGoal(w)
         \/ AppendQueue(w) \/ SaveList(w) \/ UnlistRedeem(w) \/ AddToGoal(w)
  PROVE  ExactInv'
<1>1. Only(w)
  BY StepOnly DEF Step
<1>2. /\ mem' = mem \/ \E v : Set(QueueKey, v) \/ Set(GoalsKey, v)
      /\ \/ echo' = echo
         \/ \E v : Write(QueueKey, v) \/ Write(GoalsKey, v)
      /\ ledger' = ledger /\ crossed' = crossed
  BY DEF CheckCooldown, ReadQueue, SendEvent, StartCooldown, ReadList,
         FindRedeem, CapOffer, FindGoal, AppendQueue, SaveList, UnlistRedeem,
         AddToGoal, kv, history, Refuse, ListKey
<1>3. \A u \in Users : mem'[u] = mem[u] /\ echo'[u] = echo[u]
  BY <1>2, KeyTypes, KeysAssumption DEF Set, Write, Inv, TypeOK
<1>4. \/ Return(w)
      \/ \E s \in {"append", "publish", "event", "heat", "marshal", "save",
                   "unlist", "balance", "addGoal"} : Go(w, s)
  BY DEF CheckCooldown, ReadQueue, SendEvent, StartCooldown, ReadList,
         FindRedeem, CapOffer, FindGoal, AppendQueue, SaveList, UnlistRedeem,
         AddToGoal
<1>5. \A u \in Users : ~Updating(w, u)'
  BY <1>4 DEF Return, Go, Updating, Inv, TypeOK
<1> QED BY <1>1, <1>2, <1>3, <1>5, SameExact DEF ExactInv

LEMMA ReadBalanceExact ==
  ASSUME Inv, ExactInv, NEW w \in Workers, ReadBalance(w)
  PROVE  ExactInv'
<1>1. PICK v \in job[w].users :
        /\ job' = [job EXCEPT ![w].user = v, ![w].users = @ \ {v}]
        /\ Keep(w, mem[v] + job[w].delta)
        /\ Cross(v, echo[v] # <<>>)
  BY DEF ReadBalance
<1>2. Only(w) /\ job[w] \in Jobs /\ pc'[w] = "setPoints"
  BY StepOnly DEF Step, ReadBalance, Go, Inv, TypeOK
<1>3. job'[w] = [job[w] EXCEPT !.user = v, !.users = @ \ {v}]
  BY <1>1 DEF Inv, TypeOK
<1>4. job'[w].user = v /\ job'[w].delta = job[w].delta /\ v \in Users
  BY <1>2, <1>3 DEF Jobs
<1>5. snap'[w] = mem[v] + job[w].delta
  BY <1>1 DEF Keep, Inv, TypeOK
<1>6. UNCHANGED <<mem, echo, ledger>> /\ crossed \subseteq crossed'
  BY <1>1 DEF ReadBalance, kv, Cross
<1> SUFFICES ASSUME NEW u \in Users PROVE Exact(u)'
  BY DEF ExactInv
<1>7. CASE u = v
  <2> SUFFICES ASSUME u \notin crossed'
               PROVE  /\ \A x \in Workers \ {w} : ~Updating(x, u)
                      /\ Summed(u)' /\ Computed(w, u)'
    BY <1>2, OwnerExact
  <2>1. echo[u] = <<>> /\ \A x \in Workers : ~Updating(x, u)
    BY <1>1, <1>7 DEF Cross
  <2>2. u \notin crossed /\ mem[u] = ledger[u]
    BY <1>6, <2>1 DEF ExactInv, Exact, Summed
  <2> QED BY <1>2, <1>4, <1>5, <1>6, <1>7, <2>1, <2>2
          DEF Summed, Computed, At
<1>8. CASE u # v
  <2>1. ~Updating(w, u)'
    BY <1>4, <1>8 DEF Updating
  <2> QED BY <1>2, <1>6, <2>1, SameExact DEF ExactInv
<1> QED BY <1>7, <1>8

LEMMA SetPointsExact ==
  ASSUME Inv, ExactInv, NEW w \in Workers, SetPoints(w)
  PROVE  ExactInv'
<1> DEFINE v == job[w].user
<1>1. /\ Only(w) /\ pc[w] = "setPoints" /\ pc'[w] = "putPoints"
      /\ crossed' = crossed
  BY StepOnly DEF Step, SetPoints, At, Go, Inv, TypeOK
<1>2. v \in Users /\ v \in Keys /\ Updating(w, v)
  BY <1>1, KeyTypes DEF Inv, StepOK, Updating
<1>3. /\ echo' = echo /\ job' = job /\ snap' = snap
      /\ mem'[v] = snap[w] /\ ledger'[v] = ledger[v] + job[w].delta
      /\ \A u \in Users \ {v} : mem'[u] = mem[u] /\ ledger'[u] = ledger[u]
  BY <1>2, KeyTypes DEF SetPoints, Set, Inv, TypeOK
<1> SUFFICES ASSUME NEW u \in Users PROVE Exact(u)'
  BY DEF ExactInv
<1>4. CASE u = v
  <2> SUFFICES ASSUME u \notin crossed
               PROVE  /\ \A x \in Workers \ {w} : ~Updating(x, u)
                      /\ Summed(u)' /\ Computed(w, u)'
    BY <1>1, OwnerExact
  <2>1. /\ echo[u] = <<>> /\ snap[w] = ledger'[u]
        /\ \A x \in Workers \ {w} : ~Updating(x, u)
    BY <1>1, <1>2, <1>3, <1>4 DEF ExactInv, Exact, Computed, Alone, At
  <2>2. pc'[w] # "setPoints"
    BY <1>1
  <2> QED BY <1>3, <1>4, <2>1, <2>2 DEF Summed, Computed, At
<1>5. CASE u # v
  <2>1. ~Updating(w, u)'
    BY <1>3, <1>5 DEF Updating
  <2> QED BY <1>1, <1>3, <1>5, <2>1, SameExact DEF ExactInv
<1> QED BY <1>4, <1>5

LEMMA PutPointsExact ==
  ASSUME Inv, ExactInv, NEW w \in Workers, PutPoints(w)
  PROVE  ExactInv'
<1> DEFINE v == job[w].user
<1>1. /\ Only(w) /\ pc[w] = "putPoints"
      /\ UNCHANGED <<mem, ledger, crossed>>
  BY StepOnly DEF Step, PutPoints, At, history
<1>2. v \in Users /\ v \in Keys /\ Updating(w, v)
  BY <1>1, KeyTypes DEF Inv, StepOK, Updating
<1>3. Return(w) \/ \E s \in {"balance", "findGoal"} : Go(w, s)
  BY DEF PutPoints
<1>4. \A u \in Users : ~Updating(w, u)'
  BY <1>3 DEF Return, Go, Updating, Inv, TypeOK
<1>5. /\ echo'[v] = echo[v] \/ echo'[v] = Append(echo[v], snap[w])
      /\ \A u \in Users \ {v} : echo'[u] = echo[u]
  BY <1>2, KeyTypes DEF PutPoints, Write, Refuse, Inv, TypeOK
<1> SUFFICES ASSUME NEW u \in Users PROVE Exact(u)'
  BY DEF ExactInv
<1>6. CASE u = v
  <2> SUFFICES ASSUME u \notin crossed
               PROVE  /\ \A x \in Workers \ {w} : ~Updating(x, u)
                      /\ Summed(u)' /\ Computed(w, u)'
    BY <1>1, OwnerExact
  <2>1. /\ echo[u] = <<>> /\ snap[w] = ledger[u] /\ mem[u] = ledger[u]
        /\ \A x \in Workers \ {w} : ~Updating(x, u)
    BY <1>1, <1>2, <1>6 DEF ExactInv, Exact, Computed, Summed, Alone, At
  <2>2. /\ Append(<<>>, ledger[u]) = <<ledger[u]>> /\ <<ledger[u]>> # <<>>
        /\ Len(<<ledger[u]>>) = 1 /\ <<ledger[u]>>[1] = ledger[u]
    OBVIOUS
  <2>3. Summed(u)'
    BY <1>1, <1>5, <1>6, <2>1, <2>2 DEF Summed
  <2> QED BY <1>4, <2>1, <2>3 DEF Computed
<1>7. CASE u # v
  BY <1>1, <1>4, <1>5, <1>7, SameExact DEF ExactInv
<1> QED BY <1>6, <1>7

LEMMA StepExact ==
  ASSUME Inv, ExactInv, NEW w \in Workers, Step(w)
  PROVE  ExactInv'
BY OtherSteps, ReadBalanceExact, SetPointsExact, PutPointsExact DEF Step

-----------------------------------------------------------------------------
(* The other actions.                                                      *)

LEMMA StartExact ==
  ASSUME Inv, ExactInv, NEW w \in Workers,
         NEW step \in {"cooldown", "append", "find", "offer", "balance"},
         NEW j, Start(w, step, j), snap' = snap \/ \E v : Keep(w, v),
         UNCHANGED <<kv, history>>
  PROVE  ExactInv'
<1>1. Only(w) /\ pc'[w] = step
  BY StartOnly
<1>2. \A u \in Users : ~Updating(w, u)'
  BY <1>1 DEF Updating
<1> QED BY <1>1, <1>2, SameExact DEF ExactInv, kv, history

LEMMA UpdateExact ==
  ASSUME Inv, ExactInv, NEW k \in Keys, Update(k)
  PROVE  ExactInv'
<1>1. UNCHANGED threads /\ UNCHANGED <<ledger, crossed>>
  BY DEF Update, history
<1> SUFFICES ASSUME NEW u \in Users PROVE Exact(u)'
  BY DEF ExactInv
<1>2. CASE u = k
  <2> SUFFICES ASSUME u \notin crossed
               PROVE  Summed(u)' /\ \A w \in Workers : ~Updating(w, u)
    BY <1>1, StillExact DEF ExactInv
  <2>1. /\ echo[u] \in Seq(Int) /\ echo[u] # <<>>
        /\ echo[u][Len(echo[u])] = ledger[u]
        /\ \A w \in Workers : ~Updating(w, u)
    BY <1>2, KeyTypes
    DEF Update, Inv, TypeOK, ExactInv, Exact, Summed, Computed
  <2>2. echo'[u] = Tail(echo[u]) /\ mem'[u] = Head(echo[u])
    BY <1>2 DEF Update, Set, Inv, TypeOK
  <2>3. CASE Tail(echo[u]) = <<>>
    <3>1. Len(echo[u]) \in Nat /\ Len(Tail(echo[u])) = Len(echo[u]) - 1
      BY <2>1
    <3>2. Len(Tail(echo[u])) = Len(<<>>)
      BY <2>3, Zenon
    <3>3. Len(echo[u]) = 1
      BY <3>1, <3>2
    <3>4. Head(echo[u]) = echo[u][1]
      BY <2>1
    <3>5. mem'[u] = ledger'[u] /\ echo'[u] = <<>>
      BY <1>1, <2>1, <2>2, <2>3, <3>3, <3>4
    <3> QED BY <2>1, <3>5 DEF Summed
  <2>4. CASE Tail(echo[u]) # <<>>
    <3>1. Tail(echo[u])[Len(Tail(echo[u]))] = echo[u][Len(echo[u])]
      BY <2>1, <2>4
    <3> QED BY <1>1, <2>1, <2>2, <2>4, <3>1 DEF Summed
  <2> QED BY <2>3, <2>4
<1>3. CASE u # k
  <2>1. echo'[u] = echo[u] /\ mem'[u] = mem[u]
    BY <1>3, KeyTypes DEF Update, Set, Inv, TypeOK
  <2> QED BY <1>1, <2>1, StillExact DEF ExactInv, Exact, Summed
<1> QED BY <1>2, <1>3

LEMMA ClientSetsPointsExact ==
  ASSUME Inv, ExactInv, NEW v \in Users, NEW p, ClientSetsPoints(v, p)
  PROVE  ExactInv'
<1>1. UNCHANGED threads /\ mem' = mem /\ crossed \subseteq crossed'
  BY DEF ClientSetsPoints, Cross
<1> SUFFICES ASSUME NEW u \in Users PROVE Exact(u)'
  BY DEF ExactInv
<1>2. CASE u = v
  <2> SUFFICES ASSUME u \notin crossed'
               PROVE  Summed(u)' /\ \A w \in Workers : ~Updating(w, u)
    BY <1>1, StillExact DEF ExactInv
  <2>1. \A w \in Workers : ~Updating(w, u)
    BY <1>2 DEF ClientSetsPoints, Cross
  <2>2. /\ echo'[u] = Append(echo[u], p) /\ ledger'[u] = p
        /\ echo[u] \in Seq(Value(u))
    BY <1>2, KeyTypes DEF ClientSetsPoints, Write, Inv, TypeOK
  <2>3. /\ Append(echo[u], p) # <<>>
        /\ Append(echo[u], p)[Len(Append(echo[u], p))] = p
    BY <2>2
  <2> QED BY <2>1, <2>2, <2>3 DEF Summed
<1>3. CASE u # v
  <2>1. echo'[u] = echo[u] /\ ledger'[u] = ledger[u]
    BY <1>3, KeyTypes DEF ClientSetsPoints, Write, Inv, TypeOK
  <2> QED BY <1>1, <2>1, StillExact DEF ExactInv, Exact, Summed
<1> QED BY <1>2, <1>3

LEMMA UntouchedExact ==
  ASSUME ExactInv, UNCHANGED <<threads, ledger, crossed>>,
         \A u \in Users : mem'[u] = mem[u] /\ echo'[u] = echo[u]
  PROVE  ExactInv'
BY StillExact DEF ExactInv, Exact, Summed

\* The program starts with the balances of the database: for a viewer whose
\* updates are all saved they are the ledger's, as the copies agree.
LEMMA RestartExact ==
  ASSUME Inv, InSyncInv, ExactInv, Restart
  PROVE  ExactInv'
<1> SUFFICES ASSUME NEW u \in Users, u \notin crossed' PROVE Exact(u)'
  BY DEF ExactInv, Exact
<1>1. u \notin crossed /\ u \notin unsaved /\ ~Unfinished(u)
  BY DEF Restart, Unfinished
<1>2. store[u] = ledger[u]
  BY <1>1, KeyTypes DEF ExactInv, Exact, Summed, InSyncInv, InSync
<1>3. /\ echo'[u] = <<>> /\ mem'[u] = ledger'[u]
      /\ \A w \in Workers : ~Updating(w, u)'
  BY <1>2, KeyTypes DEF Restart, Updating
<1> QED BY <1>3 DEF Exact, Summed, Alone, Computed

LEMMA NextExact == Inv /\ InSyncInv /\ ExactInv /\ [Next]_vars => ExactInv'
<1> SUFFICES ASSUME Inv, InSyncInv, ExactInv, [Next]_vars PROVE ExactInv'
  OBVIOUS
<1>1. ASSUME NEW w \in Handlers, Begin(w) PROVE ExactInv'
  <2>1. w \in Workers
    BY DEF Workers
  <2>2. /\ UNCHANGED <<kv, history>> /\ (snap' = snap \/ \E v : Keep(w, v))
        /\ \E step \in {"cooldown", "append", "find", "offer"} :
             \E j : Start(w, step, j)
    BY <1>1 DEF Begin, CommandRedeem, RPCCreate, RPCRemove, CommandContribute
  <2> QED BY <2>1, <2>2, StartExact
<1>2. ASSUME NEW w \in Workers, Step(w) PROVE ExactInv'
  BY <1>2, StepExact
<1>3. ASSUME NEW k \in Keys, Update(k) PROVE ExactInv'
  BY <1>3, UpdateExact
<1>4. ASSUME NEW U \in SUBSET Users, AwardRound(U) PROVE ExactInv'
  BY <1>4, StartExact DEF AwardRound, Workers
<1>5. ASSUME NEW u \in Users, NEW p \in ClientPoints, ClientSetsPoints(u, p)
      PROVE  ExactInv'
  BY <1>5, ClientSetsPointsExact
<1>6. ASSUME NEW list \in ClientGoals, ClientSavesGoals(list) PROVE ExactInv'
  <2>1. \A u \in Users : mem'[u] = mem[u] /\ echo'[u] = echo[u]
    BY <1>6, KeyTypes, KeysAssumption DEF ClientSavesGoals, Write, Inv, TypeOK
  <2> QED BY <1>6, <2>1, UntouchedExact DEF ClientSavesGoals, history
<1>7. ASSUME NEW r \in Rewards, CooldownOver(r) PROVE ExactInv'
  BY <1>7, UntouchedExact DEF CooldownOver, kv, history
<1>8. CASE Restart
  BY <1>8, RestartExact
<1>9. CASE UNCHANGED vars
  BY <1>9, UntouchedExact DEF vars, threads
<1> QED BY <1>1, <1>2, <1>3, <1>4, <1>5, <1>6, <1>7, <1>8, <1>9
        DEF Next, Environment

\* With any interleaving, refusals and restarts, a balance holds all updates
\* of a viewer's points, unless two of them overlapped or the program stopped
\* before one was saved: GivePoints, TakePoints and setPoints share one map
\* and one subscription, but a viewer loses points in races of their own only.
THEOREM NoUpdateIsLost == Spec => []BalancesAddUp
<1>1. Init => Inv /\ InSyncInv /\ ExactInv
  BY InitInv, InitInSync, InitExact
<1>2. Inv /\ InSyncInv /\ ExactInv /\ [Next]_vars
        => Inv' /\ InSyncInv' /\ ExactInv'
  BY NextInv, NextInSync, NextExact
<1>3. ExactInv => BalancesAddUp
  BY ExactAddsUp
<1> QED BY <1>1, <1>2, <1>3, PTL DEF Spec
=============================================================================
