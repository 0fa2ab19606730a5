SPECIFICATION Spec
CONSTANTS
  Lines = {a, b, c}
  Windows = {v1, w1}
  v1 = v1
  w1 = w1
  Layouts <- MCLayouts
  EditLines = 4
  Scrolls = {1}
  Hikes = {50}
  Names = {m}
  MaxLine = 4
  Returners = {v1}
SYMMETRY AnyLine
PROPERTIES
  OthersKeepTheirLines
  CursorArrives
  TailIsFollowed
