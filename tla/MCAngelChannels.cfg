CONSTANTS
  MAX_SEQ = 1
  Tasks = 4
SPECIFICATION FairSpec
INVARIANTS
  TypeOK
  SentWhenTold
  WriterAlive
  FreeWhenIdle
PROPERTIES
  DroppedOnlyWhenBusy
  CallReturnsUnless
CHECK_DEADLOCK FALSE
