CONSTANTS
  p1 = p1
  p2 = p2
  None = none
  w1 = w1
  w2 = w2
  s1 = s1
  s2 = s2
  s3 = s3
  m1 = m1
  m2 = m2
  a = a
  b = b
  i1 = i1
  i2 = i2
  i3 = i3
  t1 = t1
  t2 = t2
  v1 = v1
  v2 = v2
  g = g
  t = t
  z = z
  u = u
  Off = Off
  Pods = {p1, p2}
  Listed = TRUE
  InitSource = "db"
  Refreshing = FALSE
  MaxVersion = 2
  MaxTrouble = 1
  MaxDay = 2
  MaxWeek = 2
  Waybills = {w1, w2}
  Schedules = {s1, s2, s3}
  Repeating = {s1}
  Anchors = {m1, m2}
  Trips = {1, 2}
  Real <- TwoTripsOnS1
  FirstRows <- RepeatingOrFlexi
  Swaps = {{m1}}
  HandStatuses = {"closed"}
  HandTrips = {s1}
  MaxHand = 1
  Routes = {a, b}
  Ids = {i1, i2, i3}
  DraftSize = 2
  MaxMoves = 1
  MaxCuts = 1
  Tags = {t1}
  TagRows = {i1, i2}
  Vehicles = {v1, v2}
  NumberOf <- SameNumber
  Stops = {a, b}
  MaxPoints = 3
  MaxOrder = 4
  FirstPoints <- TwoStops
  RowsByHand <- MovedOrGone
  MaxRewrites = 1
  Rows = {g, t}
  Kind <- StageAndTimetable
  Texts = {"x", "y", "x_"}
  Spaced = {"x_"}
  Trimmed <- WithoutSpace
  FirstMaster <- MasterAtFirst
  FirstProd <- ProdAtFirst
  Admins = {a}
  Takes <- NoneOrBoth
  MaxVersions = 2
  MaxSets = 3
  Zips = {z}
  Drafts = {i1}
  MaxFeedVersion = 3
  MaxTime = 2
  MaxTickets = 1
  Repeats = {{1, 2, 3}, {2, 3}, Off}
  FirstRepeats <- EveryDay
  FirstFilled <- TheFirst
  Users = {u}
  Ranges <- AllOrTheLast
  LookAhead = 1
  Batch = 1
  MaxEdits = 1
  MaxUpsets = 1
SPECIFICATION PartsSpec
SYMMETRY Symmetry
INVARIANTS FleetTypeOK CountedPodsAreThere TripsInOrder OneDutyAtATime OneSetARoute OneRunAWeek NoDeadTag DraftsStandOnRows WatermarkHonest OneSweep
PROPERTIES FreshDuty OrderKept OwnEditsKept EachCommitMoves ReplacesWhatWasChecked
CHECK_DEADLOCK FALSE
