SPECIFICATION Spec
CONSTANTS
  EndUnit = {e1}
  DoorUnit = {}
  Motion = {}
  Gateway = {}
  MaxSlaver = 1
  FirstReadings = {0, 1}
  BackReadings = {0, 1}
  CheckReadings = {0, 1}
  e1 = e1
INVARIANTS
  FailAlarmMeansInvalid
PROPERTIES
  PromiseKept
  LeakReachesRelay
