------------------------- MODULE LoyaltyRefinement -------------------------
(***************************************************************************)
(* How the loyalty manager implements LoyaltyLedger, with every            *)
(* interleaving of its goroutines.  The versions of a key are its copies   *)
(* in memory and in the database, the pushes on their way, and what        *)
(* goroutines work with; the stage of an order is read from the place its  *)
(* goroutine is at.                                                        *)
(***************************************************************************)
EXTENDS Loyalty

\* The key whose value a goroutine holds, and that value; before SetPoints
\* the balance it was computed from.
Holds(w) ==
  CASE pc[w] \in {"setPoints", "putPoints"} -> job[w].user
    [] pc[w] \in {"publish", "unlist"} -> QueueKey
    [] pc[w] \in {"offer", "addGoal"} -> GoalsKey
    [] pc[w] = "save" -> ListKey(w)
    [] OTHER -> None
Held(w) == IF At(w, "setPoints") THEN snap[w] - job[w].delta ELSE snap[w]

Versions(k) ==
  {mem[k], store[k]} \cup {echo[k][i] : i \in DOMAIN echo[k]}
    \cup {Held(w) : w \in {x \in Workers : Holds(x) = k}}

\* How far the order is that a goroutine works on.
Stage(w) ==
  CASE job[w].kind = "redeem" ->
         (CASE At(w, "cooldown") -> "asked"
            [] pc[w] \in {"append", "publish"} -> "admitted"
            [] At(w, "event") -> "queued"
            [] At(w, "putPoints") -> "none"
            [] OTHER -> "owed")
    [] job[w].kind = "create" /\ pc[w] \in {"append", "publish"} -> "granted"
    [] job[w].kind = "contribute" /\ pc[w] \in {"balance", "setPoints"} -> "offered"
    [] job[w].kind = "contribute" /\ pc[w] \in {"putPoints", "findGoal", "addGoal"}
         -> "pledged"
    [] job[w].kind = "award" -> "due"
    [] OTHER -> "none"

\* The viewers it is for: of a round of awards those who are still to come.
Recipients(w) ==
  IF Stage(w) # "due" THEN {job[w].user}
  ELSE job[w].users \cup IF At(w, "setPoints") THEN {job[w].user} ELSE {}

OrderOf(w, u) ==
  [stage |-> Stage(w), user |-> u, item |-> job[w].item,
   points |-> -job[w].delta, when |-> job[w].when]
OrdersOf(w) ==
  IF Stage(w) = "none" THEN {} ELSE {OrderOf(w, u) : u \in Recipients(w)}

Ledger == INSTANCE LoyaltyLedger WITH
  versions <- [k \in Keys |-> Versions(k)],
  open <- UNION {OrdersOf(w) : w \in Workers},
  cooling <- hot,
  refusals <- budget["failure"], stops <- budget["restart"],
  Refusals <- Limits["failure"], Stops <- Limits["restart"]

\* Whatever interleaves, is refused, removed by clients or cut off by a stop:
\* every redeem is checked, queued, published and charged once and in this
\* order, every contribution is taken and credited once with the same points,
\* within a balance and a goal that were current when it was offered, and a
\* round awards nobody twice.  The second half of an operation is only left
\* out for a refused write, a stop or a goal that is gone.
ImplementsLedger == Ledger!Spec
=============================================================================
