CONSTANTS
  Surfaces = {s1, s2, s3}
  NoSurface = NoSurface
  DndImpl = {s1, s2}
  Offers = {o1, o2, o3, o4}
  NoOffer = NoOffer
  Mimes = {m1, m2}
SYMMETRY Alike
SPECIFICATION Spec
INVARIANT DragTargetLive
