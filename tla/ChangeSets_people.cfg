CONSTANTS
  ann = ann
  bob = bob
  cyd = cyd
  s1 = s1
  s2 = s2
  s3 = s3
  x = x
  y = y
  z = z
  h = h
  Users = {ann, bob, cyd}
  Sets = {s1, s2}
  Keys = {x}
  SoftKeys = {x}
  LiveAtStart = {x}
  InitRole <- ThreePeople
  Restless = {bob}
  None = None
  Import = Import
  MaxChanges = 1
  MaxVersion = 3
SPECIFICATION Spec
INVARIANTS MakerChecker ReviewedIsLive
PROPERTIES SettledForGood
CHECK_DEADLOCK FALSE
