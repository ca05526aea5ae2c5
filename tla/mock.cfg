SPECIFICATION FairSpec
CONSTANTS
  MaxConns = 2
  MaxRequests = 3
  MaxStarts = 2
  MaxEvents = 1
INVARIANTS OpenConnsListed OpensWithHandshake OwnHooksDistinct JobsTakeTwoRounds
PROPERTY StopEndsConnections
CHECK_DEADLOCK FALSE
