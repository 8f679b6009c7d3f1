SPECIFICATION Spec
CONSTANTS
  EndUnit = {e1, e2}
  DoorUnit = {d1, d2}
  Motion = {m1}
  Gateway = {g1, g2}
  MaxSlaver = 2
  FirstReadings = {1}
  BackReadings = {1}
  CheckReadings = {0}
  e1 = e1
  e2 = e2
  d1 = d1
  d2 = d2
  m1 = m1
  g1 = g1
  g2 = g2
INVARIANTS
  TypeOK
  AlarmHoldsValveShut
  AlarmRankRecorded
  LearnWindowBounded
  OneDoorOneGateway
  LockedMeansShut
SYMMETRY SameType
PROPERTIES
  LeakEndsOnlyWhenDry
  NoAlarmDowngrade
  EveryLeakReportShuts
  LeakSurvivesReset
  NoOpenUnderAlarm
  UnlockOnlyToOpen
  PromiseKept
