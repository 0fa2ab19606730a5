SPECIFICATION Spec
CONSTANTS
  Names = {1, 2, 3, 4, 5}
  Builtins = {2, 5}
  Unassigned = 5
  CurFile = 4
  Playback = 3
  Keys = {"k1", "k2"}
  RsrcFiles <- MCRsrcFiles
  LuaFiles <- MCLuaFiles
INVARIANTS
  KeysFollowNames
PROPERTIES
  IntrinsicsComeBack
