CONSTANTS
  Inbound = {i1, i2}
  Outbound = {}
  Accepts = {}
  Rejects = {}
  Disconnects = {}
  Nicknames = {}
  None = None
SPECIFICATION Spec
INVARIANTS ActiveSessionListed
CHECK_DEADLOCK FALSE
