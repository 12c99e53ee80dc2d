CONSTANTS
  Limit = 2
  Window = 7
  MaxClock = 8
  Base = 4
  IdSize = 1
  KeySize = 1
  TypeBytes <- MCTypeBytes
  Peer <- MCPeer
  Body <- MCBody
  Ids <- MCIds
  Error = Error
  Panic = Panic
  Dropped = Dropped
  None = None
SPECIFICATION Spec
INVARIANTS BurstBounded RefusedOnlyWhenSpent ReadsWhatWasWritten PrefixesRefused
CHECK_DEADLOCK FALSE
