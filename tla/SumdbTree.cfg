CONSTANTS
  MaxSize = 13
  AllUpTo = 5
  Answers <- MCAnswers
SPECIFICATION Spec
INVARIANT TypeOK
INVARIANT Sound
INVARIANT Complete
CHECK_DEADLOCK FALSE
