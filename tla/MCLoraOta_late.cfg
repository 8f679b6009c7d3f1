SPECIFICATION Spec
CONSTANTS
  Image <- MCImage
  Length <- MCLength
  PartLen = 4
  MaxAnswers = 3
  MaxBegins = 1
  MaxResets = 0
INVARIANTS
  EndsComplete
CHECK_DEADLOCK FALSE
