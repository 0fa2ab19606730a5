SPECIFICATION FairSpec
CONSTANTS
  Text <- MCText
  Script <- MCScript
  Outcome <- MCOutcome
  Keys <- SafeKeys
  MaxNest = 3
  MaxKeys = 7
  MaxArgs = 2
INVARIANTS
  MainNeverReturns
PROPERTIES
  HaltEmptiesStack
  HaltIsHonoured
CHECK_DEADLOCK FALSE
