SPECIFICATION Spec
CONSTANTS
  Backends = {"kitty", "ncurses"}
  Presses <- SmallPresses
  Fkt <- FewTokens
  Locks = {0, 128}
  MaxPresses = 2
  MaxResizes = 1
  MaxFlushes = 1
INVARIANTS
  KeysAreHeard
  DamageIsLocal
  NoReadHangs
CHECK_DEADLOCK FALSE
