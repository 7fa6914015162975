SPECIFICATION CrashSpec
CONSTANTS
  Backups = {"b1", "b2"}
  none = none
  Clicks = 2
  Entries = 1
CHECK_DEADLOCK FALSE
INVARIANT RestoredIsRestored
