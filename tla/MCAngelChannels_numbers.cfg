CONSTANTS
  MAX_SEQ = 3
  Tasks = 3
SPECIFICATION Spec
INVARIANTS
  NumbersDistinct
CHECK_DEADLOCK FALSE
