SPECIFICATION Spec
VIEW ShapeOfTree
CONSTANTS
  Keys <- ElevenKeys
INVARIANTS
  ColoursBalance
  AssertsHold
  AnswersAsSortedList
