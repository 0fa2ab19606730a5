SPECIFICATION HistorySpec
CONSTANTS
  a = a
  b = b
  Text = {a}
  Blank = Blank
  LineHeadSpace = 0
  MaxLine = 1
  MaxInsert = 1
  MaxRecs = 4
  MaxTime = 2
  MaxUndoValues = {2}
  InitDocs <- OneDoc
  ForeignDocs <- OtherDoc
  TrailLineWrite = FALSE
  TickOnWrite = TRUE
INVARIANTS
  WalkStaysInList
  UndoneTailIsSealed
  DeletionsOwnTheirLines
  CleanMatchesDisk
PROPERTIES
  ImplementsHistory
