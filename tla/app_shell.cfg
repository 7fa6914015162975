SPECIFICATION Spec
CONSTANTS
  History = 2
  Backlog = 1
  none = none
  Clients = {1, 2}
  Protected = {TRUE, FALSE}
  Limits <- MCLimits
  Entries = 1
  Fails = 1
  Cuts = 1
  Asking = 2
  All = 2
CHECK_DEADLOCK FALSE
INVARIANTS TypeOK DialogsWait LogsArrive
PROPERTY Settles
