SPECIFICATION FairSpec
CONSTANTS
  Pkgs = {a, b}
  Clients = {k1, k2}
  MaxProcs = 2
  MaxEdits = 2
  MaxClock = 1
  Backlog = 4
  None = None
INVARIANTS TypeOK NeverUninvited RunningHasPort AnswersOwnSession
PROPERTIES EditsTakeEffect StopWaitsForClientsOnly BacklogIsServed
CHECK_DEADLOCK FALSE
