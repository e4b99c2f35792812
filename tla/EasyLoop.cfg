CONSTANTS
  o1 = o1
  o2 = o2
  t1 = t1
  t2 = t2
  Outputs = {o1, o2}
  Seats = {t1, t2}
  Display = Display
  NoOutput = NoOutput
  WalkedMayLeave = FALSE
  Scales = {1, 2}
  Garbage = Garbage
  RemovedWhileShown = FALSE
  UnsetWhileShown = FALSE
SPECIFICATION SurfaceSpec
SYMMETRY Alike
INVARIANTS TypeOK DescribedWhenAnnounced NoneForgotten ManagersReachAll ArrayIsShownOn ScaleFollows SubsurfaceFollows
