CONSTANTS
  p1 = p1
  p2 = p2
  Pods = {p1}
  Listed = TRUE
  InitSource = "preprocessed"
  Refreshing = TRUE
  MaxVersion = 1
  MaxTrouble = 0
SPECIFICATION Spec
PROPERTIES RowDecides
