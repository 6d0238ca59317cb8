CONSTANTS
  ann = ann
  bob = bob
  cyd = cyd
  s1 = s1
  s2 = s2
  s3 = s3
  x = x
  y = y
  z = z
  h = h
  Users = {ann}
  Sets = {s1, s2}
  Keys = {x, y, z, h}
  SoftKeys = {x, y, z}
  LiveAtStart = {x, z}
  InitRole <- OneAdmin
  Restless = {}
  None = None
  Import = Import
  MaxChanges = 2
  MaxVersion = 3
SPECIFICATION Spec
SYMMETRY RowSymmetry
INVARIANTS TypeOK LiveIsHistory
PROPERTIES NoLostUpdate
CHECK_DEADLOCK FALSE
