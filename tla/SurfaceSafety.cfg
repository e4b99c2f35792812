CONSTANTS
  s1 = s1
  s2 = s2
  Surfaces = {s1, s2}
  NoSurface = NoSurface
  MaxDepth = 2
  UIntRange = 3
  Globals = {"xdg_wm_base", "layer_shell", "wl_subcompositor", "wl_seat"}
  ConfigureImpl = {}
  RunWithZero = TRUE
  AskAgain = FALSE
  RoleWhileWaiting = FALSE
  DestroyInUpdate = FALSE
SPECIFICATION Spec
SYMMETRY SurfaceSymmetry
INVARIANTS TypeOK NoLostUpdate NoLostDestroy LinkedMeansFlagged PassCursorLinked SurfaceCount NoneLeftBehind
PROPERTIES  Throttled MapsConfigured
