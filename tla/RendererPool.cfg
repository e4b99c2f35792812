CONSTANTS
  Geometries <- MCGeometries
  NoGeometry = NoGeometry
  Bytes <- MCBytes
  Spare <- MCSpare
  ShrinkLimit = 2
  MaxBuffers = 2
  Sizes = {1, 2}
  Scales = {1, 2}
  SlotsAnyTime = FALSE
  RoleReuse = FALSE
SPECIFICATION Spec
INVARIANT PoolReady
