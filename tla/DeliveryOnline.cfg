CONSTANTS
  Msg = {m1}
  Edits = {}
  Deletes = {}
  Typed = {}
  Flushes = {}
  Dialer = "peer"
  MaxSessions = 1
  None = None
SPECIFICATION Spec
INVARIANTS QueuedOnlyOffline
CHECK_DEADLOCK FALSE
