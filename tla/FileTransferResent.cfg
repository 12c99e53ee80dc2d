CONSTANTS
  Chunks = 3
  Sent <- MCSent
  Flushes = {f1}
  MaxSessions = 2
  None = None
SPECIFICATION Spec
INVARIANTS StoredIsWhole
CHECK_DEADLOCK FALSE
