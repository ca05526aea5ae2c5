SPECIFICATION Spec
CONSTANTS
  MaxConn = 3
  MaxLoops = 2
  MaxOps = 2
  AutoReconnect = TRUE
  Beating <- LastBeats
  Standby <- None
  Answering <- None
INVARIANTS TypeOK ReconnectFlagHasLoop FreshHandshake
PROPERTIES SessionsNeverRestored
CHECK_DEADLOCK FALSE
