CONSTANTS
  p1 = p1
  p2 = p2
  d1 = d1
  d2 = d2
  s1 = s1
  Off = Off
  Pods = {p1, p2}
  Deliveries = {d1, d2}
  None = None
  MaxAttempts = 2
  MaxTrouble = 2
SPECIFICATION LoopsSpec
INVARIANTS TypeOK OneHolder NoNeedlessDuplicate
PROPERTIES SettledForGood EveryDeliveryIsSettled EveryDayIsFilled
CHECK_DEADLOCK FALSE
