CONSTANTS
  Inbound = {i1}
  Outbound = {}
  Accepts = {}
  Rejects = {r1}
  Disconnects = {}
  Nicknames = {}
  None = None
SPECIFICATION Spec
INVARIANTS RejectSticks
CHECK_DEADLOCK FALSE
