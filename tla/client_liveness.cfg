SPECIFICATION FairSpec
CONSTANTS
  MaxConn = 2
  MaxLoops = 0
  MaxOps = 2
  AutoReconnect = FALSE
  Beating <- FirstBeats
  Standby <- LastBeats
  Answering <- AllAnswer
INVARIANTS CloseReleases
PROPERTIES LossIsDetected CloseStopsThreads
CHECK_DEADLOCK FALSE
