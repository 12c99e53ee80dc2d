CONSTANTS
  Msg = {m1}
  Edits = {}
  Deletes = {}
  Typed = {}
  Flushes = {}
  Dialer = "sender"
  MaxSessions = 2
  None = None
SPECIFICATION Spec
INVARIANTS AcceptedIsMutual
CHECK_DEADLOCK FALSE
