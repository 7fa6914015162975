CONSTANTS
  on1 = on1
  on2 = on2
  off = off
  v1 = v1
  v2 = v2
  p1 = p1
  p2 = p2
  l1 = l1
  l2 = l2
  Users = {v1}
  Banned = {}
  Configs = {on1, on2, off}
  Active = {on1, on2}
  Updates = {p1, p2}
  Loops = {l1, l2}
  None = None
  Limits <- LimitsLoop
SPECIFICATION FairSpec
INVARIANTS TypeOK OneLoop ListedOnce LoopIsCurrent
PROPERTIES BonusEarned ReloadsOrStranded LoopsEndAfterClose
CHECK_DEADLOCK FALSE
