CONSTANTS
  Inbound = {i1}
  Outbound = {o1}
  Accepts = {x1}
  Rejects = {x1}
  Disconnects = {x1}
  Nicknames = {x1}
  None = None
SPECIFICATION FairSpec
INVARIANTS NoLeakedEntry NoLeakedConn RejectHolds
PROPERTIES EntryGoesAway
CHECK_DEADLOCK FALSE
