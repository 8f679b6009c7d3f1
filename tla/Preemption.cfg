SPECIFICATION PSpec
CONSTANTS
  EndUnit = {e1}
  DoorUnit = {}
  Motion = {}
  Gateway = {}
  MaxSlaver = 1
  MaxHandlers = 3
  FirstReadings = {0}
  BackReadings = {1}
  CheckReadings = {0}
  e1 = e1
INVARIANTS
  WindowBoundedAtRest
  LockedOpenOnlyOvertaken
  AlarmHoldsAtRest
  DrivenShutAtRest
  RankAtRest
PROPERTIES
  NoUnlockUnderAlarm
CHECK_DEADLOCK FALSE
