CONSTANTS
  Chunks = 3
  Sent <- MCSent
  Flushes = {f1}
  MaxSessions = 3
  None = None
SPECIFICATION FairSpec
INVARIANTS TypeOK WholeUnlessResent
PROPERTIES TransferCompletes
CHECK_DEADLOCK FALSE
