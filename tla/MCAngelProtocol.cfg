CONSTANTS
  MAX_SEQ = 7
  Body = {0, 1}
  Buffers = 2
  Wire = 2
  Losses = 1
SPECIFICATION Spec
INVARIANTS
  TypeOK
  ResendPossible
PROPERTIES
  ImplementsCalls
  HeartbeatAckHonest
  
