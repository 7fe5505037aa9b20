SPECIFICATION LogSpec
CONSTANTS
  MaxMessages = 3
  Torn = TRUE
INVARIANTS DrainMissesNothing VerdictFitsTheLog
PROPERTIES JudgedAtLast
CHECK_DEADLOCK FALSE
