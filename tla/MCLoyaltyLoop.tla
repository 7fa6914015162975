--------------------------- MODULE MCLoyaltyLoop ---------------------------
(***************************************************************************)
(* Small instances of the points loop: an active configuration, another    *)
(* one and an inactive one, two viewers of whom one is banned, and room    *)
(* for one loop and one callback more than should ever be needed.          *)
(***************************************************************************)
EXTENDS LoyaltyLoop

CONSTANTS on1, on2, off, v1, v2, p1, p2, l1, l2

Bounds(writes, rounds, bots, closes) ==
  [b \in Budgets |-> CASE b = "write" -> writes
                       [] b = "round" -> rounds
                       [] b = "bot" -> bots
                       [] OTHER -> closes]
LimitsLoop == Bounds(2, 2, 1, 1)
LimitsWrite == Bounds(1, 0, 0, 0)
LimitsRound == Bounds(1, 1, 0, 0)
=============================================================================
