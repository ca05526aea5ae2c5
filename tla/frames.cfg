SPECIFICATION Spec
CONSTANTS
  Base = 4
  MaxPayload = 3
  MaxChunk = 16
  Messages <- MCMessages
  Junk <- MCJunk
  MaxSent = 4
  Links <- MCLinks
INVARIANTS TypeOK InOrder NothingForgotten JunkLosesOnlyItsChunk BufferBounded WaitsEmptyHanded
CHECK_DEADLOCK FALSE
