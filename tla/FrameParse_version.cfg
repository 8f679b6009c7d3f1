SPECIFICATION Spec
CONSTANTS
  NET_REGION_SELECT = 3
  NETWORK_VERSION = 1
INVARIANTS
  OldVersionRejected
