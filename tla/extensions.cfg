SPECIFICATION Spec
CONSTANTS
  Names = {"m", "n"}
  Sources = {"a"}
  blank = "blank"
  none = none
  Saved <- MCSaved
  Limits <- MCLimits
  Edited = 2
  Typed = 1
  Writes = 1
  Cuts = 1
  Fails = 1
  All = 3
CHECK_DEADLOCK FALSE
INVARIANTS TypeOK OneWorker StatusShown RunsWhatIsStored
PROPERTY EverySettles
