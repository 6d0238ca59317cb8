CONSTANTS
  r1 = r1
  r2 = r2
  r3 = r3
  s1 = s1
  s2 = s2
  k1 = k1
  k2 = k2
  Free = Free
  Sets = {s1, s2}
  Keys = {k1}
  KeyOf <- OneRow
  Requests = {r1, r2, r3}
  Jobs <- CrossingJobs
  MaxAttempts = 2
SPECIFICATION Spec
SYMMETRY Symmetry
INVARIANTS TypeOK OneReplayAtATime EachOnTopOfTheLast VersionsAreFull OnlyApprovalsDeadlock
