SPECIFICATION Living
CONSTANTS
  Births <- MCBirths
  MaxAge = 9
  MaxThreshold = 10
INVARIANTS
  AnswerIsAge
CHECK_DEADLOCK FALSE
