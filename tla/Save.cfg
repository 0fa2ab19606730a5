SPECIFICATION Spec
CONSTANTS
  f = f
  g = g
  Names = {f, g}
  Pseudo = Pseudo
  None = None
  Modes <- AnyBackup
  FaultSets <- LateOrTidy
  MaxVer = 3
  MaxTime = 4
  TickOnSave = TRUE
INVARIANTS
  OldOrNewSurvives
  SavedIsOnDisk
  NoTmpLeft
PROPERTIES
  PreviousIncarnationKept
CHECK_DEADLOCK FALSE
