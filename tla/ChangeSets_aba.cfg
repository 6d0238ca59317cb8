CONSTANTS
  ann = ann
  bob = bob
  cyd = cyd
  s1 = s1
  s2 = s2
  s3 = s3
  x = x
  y = y
  z = z
  h = h
  Users = {ann}
  Sets = {s1, s2, s3}
  Keys = {x}
  SoftKeys = {}
  LiveAtStart = {x}
  InitRole <- OneAdmin
  Restless = {}
  None = None
  Import = Import
  MaxChanges = 1
  MaxVersion = 4
SPECIFICATION Spec
PROPERTIES NoLostUpdateOfHardRows
CHECK_DEADLOCK FALSE
