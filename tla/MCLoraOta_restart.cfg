SPECIFICATION Spec
CONSTANTS
  Image <- MCImage
  Length <- MCLength
  PartLen = 4
  MaxAnswers = 3
  MaxBegins = 2
  MaxResets = 0
INVARIANTS
  EndsCompleteUnmistaken
CHECK_DEADLOCK FALSE
