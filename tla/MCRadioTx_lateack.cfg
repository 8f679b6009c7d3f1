SPECIFICATION Spec
CONSTANTS
  N = 2
  Confirmed = {1, 2}
  QueueSize = 2
  MAX_LBT_RETRY_TIMES = 2
  MAX_ACK_RETRY_TIMES = 2
INVARIANTS
  AckedMeansDelivered
CHECK_DEADLOCK FALSE
