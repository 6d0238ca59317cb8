CONSTANTS
  p1 = p1
  p2 = p2
  Pods = {p1}
  Listed = TRUE
  InitSource = "none"
  Refreshing = TRUE
  MaxVersion = 4
  MaxTrouble = 2
SPECIFICATION FairSpec
INVARIANTS TypeOK LabelIsAFloor
PROPERTIES NeverOlder ComesBack
