SPECIFICATION Spec
CONSTANTS
  Screens <- MCScreens
  Cuts <- AllCuts
  MinWin = 10
  MaxWindows = 10
INVARIANTS
  AnyWindowCloses
  WindowsTileScreen
PROPERTIES
  ShrinksInProportion
CHECK_DEADLOCK FALSE
