----------------------------- MODULE MCLoyalty -----------------------------
(***************************************************************************)
(* Small instances of the loyalty manager for TLC: one reward of price 2   *)
(* with a cooldown and one goal of 3 points.                               *)
(***************************************************************************)
EXTENDS LoyaltyRefinement, TLC

CONSTANTS u1, u2, r1, g1, h1, h2

MCPrice == [r \in Rewards |-> 2]
MCTotalGoal == [g \in Goals |-> 3]
MCClientGoals == {[g \in Goals |-> None], [g \in Goals |-> 1]}

Bounds(commands, rounds, clients, restarts, failures) ==
  [b \in Budgets |-> CASE b = "command" -> commands
                       [] b = "round" -> rounds
                       [] b = "client" -> clients
                       [] b = "restart" -> restarts
                       [] OTHER -> failures]
LimitsLedger == Bounds(2, 1, 0, 1, 1)
LimitsRace == Bounds(2, 1, 0, 0, 0)
LimitsNone == Bounds(2, 0, 1, 0, 1)

\* For safety only.
Symmetry == Permutations({u1, u2}) \cup Permutations({h1, h2})
=============================================================================
