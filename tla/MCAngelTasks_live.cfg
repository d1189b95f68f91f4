CONSTANTS
  POOLSIZE = 4
  STACKS = 4
  Event = {"READCB"}
SPECIFICATION FairSpec
PROPERTIES
  CallbacksRun
CHECK_DEADLOCK FALSE
