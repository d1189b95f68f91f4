CONSTANTS
  MAX_SEQ = 1
  Tasks = 3
SPECIFICATION FairSpec
PROPERTIES
  CallReturns
CHECK_DEADLOCK FALSE
