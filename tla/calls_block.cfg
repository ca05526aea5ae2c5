SPECIFICATION FairSpec
CONSTANTS
  Calls = {c1}
  Watchers = {w1}
  Loop = loop
  Closer = closer
  Nobody = nobody
  MaxConn = 2
  ChecksSession = TRUE
PROPERTIES CallsAlwaysReturn
CHECK_DEADLOCK FALSE
