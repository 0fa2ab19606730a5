SPECIFICATION Spec
CONSTANTS
  Names = {a, b}
  NoFile = NoFile
  NoBuf = NoBuf
  MaxWindows = 2
  MaxClock = 2
SYMMETRY Sym
INVARIANTS
  CurFileIsShown
  StateFileIsMostRecent
PROPERTIES
  EditsGoOnlyWhenAsked
CHECK_DEADLOCK FALSE
