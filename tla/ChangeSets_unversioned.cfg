CONSTANTS
  ann = ann
  bob = bob
  cyd = cyd
  s1 = s1
  s2 = s2
  s3 = s3
  x = x
  y = y
  z = z
  h = h
  Users = {ann}
  Sets = {s1, s2}
  Keys = {x}
  SoftKeys = {x}
  LiveAtStart = {}
  InitRole <- OneAdmin
  Restless = {}
  None = None
  Import = Import
  MaxChanges = 2
  MaxVersion = 3
SPECIFICATION Spec
SYMMETRY Symmetry
PROPERTIES NoUnversionedOverwrite
CHECK_DEADLOCK FALSE
