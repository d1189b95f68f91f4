CONSTANTS
  POOLSIZE = 5
  STACKS = 4
  Event = {"READCB"}
SPECIFICATION Spec
INVARIANTS
  TypeOK
  QueueIsPool
  RunnerIsCurrent
  SVCStackExclusive
  StacksExclusive
  AlwaysATask
  StopHonoured
  PriorityOrder
CHECK_DEADLOCK FALSE
