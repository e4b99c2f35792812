CONSTANTS
  s1 = s1
  s2 = s2
  Surfaces = {s1, s2}
  NoSurface = NoSurface
  MaxDepth = 1
  UIntRange = 3
  Globals = {"layer_shell"}
  ConfigureImpl = {s1}
  RunWithZero = TRUE
  AskAgain = FALSE
  RoleWhileWaiting = FALSE
  DestroyInUpdate = FALSE
SPECIFICATION LiveSpec
PROPERTIES ServiceSafe ServiceLive LoopStops
