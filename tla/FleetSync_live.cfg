CONSTANTS
  p1 = p1
  p2 = p2
  Pods = {p1, p2}
  Listed = TRUE
  InitSource = "db"
  Refreshing = FALSE
  MaxVersion = 2
  MaxTrouble = 1
SPECIFICATION TroubledSpec
PROPERTIES LastVersionIsAnswered
