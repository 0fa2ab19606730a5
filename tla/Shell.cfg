SPECIFICATION FairSpec
CONSTANTS
  MaxJobs = 3
  MaxLines = 1
  None = None
  MayPrint255 = FALSE
INVARIANTS
  NoChildLeft
  NoWorkerWithoutExecutor
PROPERTIES
  NoJobStartsInPrompt
  StopReturns
  BatchEnds
