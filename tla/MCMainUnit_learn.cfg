SPECIFICATION Spec
CONSTANTS
  EndUnit = {e1}
  DoorUnit = {}
  Motion = {}
  Gateway = {}
  MaxSlaver = 1
  FirstReadings = {1}
  BackReadings = {1}
  CheckReadings = {0}
  e1 = e1
PROPERTIES
  LearnTimeoutKeepsAlarm
