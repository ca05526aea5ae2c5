SPECIFICATION FairSpec
CONSTANTS
  Calls = {c1}
  Watchers = {w1}
  Loop = loop
  Closer = closer
  Nobody = nobody
  MaxConn = 2
  ChecksSession = TRUE
INVARIANTS TypeOK WokenHasAnswer AnswerOfOwnSession NoSlotLeaks
PROPERTIES CallsReturn KeepsPromise
CHECK_DEADLOCK FALSE
