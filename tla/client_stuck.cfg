SPECIFICATION Spec
CONSTANTS
  MaxConn = 2
  MaxLoops = 1
  MaxOps = 1
  AutoReconnect = TRUE
  Beating <- LastBeats
  Standby <- None
  Answering <- AllAnswer
INVARIANTS LostLinkReconnects
CHECK_DEADLOCK FALSE
