SPECIFICATION FairSpec
CONSTANTS
  a = a
  b = b
  Text = {a}
  Blank = Blank
  LineHeadSpace = 1
  MaxLine = 1
  MaxInsert = 2
  MaxRecs = 3
  MaxTime = 2
  MaxUndoValues = {0, 1}
  InitDocs <- OneDoc
  ForeignDocs <- OneDoc
  TrailLineWrite = FALSE
  TickOnWrite = TRUE
INVARIANTS
  RecordsFit
  NoLinesBeyondEof
  OldestIsBoundary
PROPERTIES
  LoopsEnd
