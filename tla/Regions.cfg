SPECIFICATION Spec
CONSTANTS
  TabWidth = 3
  ClipWidth = 1
  EntabModes = {"none", "leading", "exoquote", "all"}
  Texts <- MCTexts
  Points <- MCPoints
  Script <- MCScript
VIEW View
INVARIANTS
  ColumnsInvert
PROPERTIES
  EditsAsPlainText
CHECK_DEADLOCK FALSE
