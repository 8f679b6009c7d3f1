SPECIFICATION Spec
CONSTANTS
  N = 3
  Confirmed = {1, 3}
  QueueSize = 2
  MAX_LBT_RETRY_TIMES = 2
  MAX_ACK_RETRY_TIMES = 2
INVARIANTS
  TypeOK
  DeafOnlyByLateCad
  SendsBounded
PROPERTIES
  DeliveredInOrder
  AckDecidesWait
  EveryMessageEnds
  ListensAgain
CHECK_DEADLOCK FALSE
