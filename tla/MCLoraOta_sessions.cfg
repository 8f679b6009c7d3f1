SPECIFICATION Spec
CONSTANTS
  Image <- MCImage
  Length <- MCLength
  PartLen = 4
  MaxAnswers = 3
  MaxBegins = 3
  MaxResets = 2
INVARIANTS
  TypeOK
  ProgramOnce
  AcknowledgedIsWritten
PROPERTIES
  UnopenedOnlyAfterReset
CHECK_DEADLOCK FALSE
