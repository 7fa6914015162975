CONSTANTS
  u1 = u1
  u2 = u2
  r1 = r1
  g1 = g1
  h1 = h1
  h2 = h2
  Users = {u1}
  Rewards = {r1}
  Goals = {g1}
  QueueKey = QueueKey
  GoalsKey = GoalsKey
  Handlers = {h1, h2}
  Ticker = Ticker
  None = None
  Price <- MCPrice
  HasCooldown = {r1}
  TotalGoal <- MCTotalGoal
  Offers = {2}
  Award = 1
  StartPoints = 3
  ClientPoints = {2}
  ClientGoals <- MCClientGoals
  Limits <- LimitsNone
SPECIFICATION FairSpec
INVARIANTS Agreement ChargedWereAnnounced
PROPERTIES Converges
CHECK_DEADLOCK FALSE
