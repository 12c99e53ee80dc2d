CONSTANTS
  Msg = {m1, m2}
  Edits = {c1}
  Deletes = {m2}
  Typed = {m2}
  Flushes = {m2}
  Dialer = "sender"
  MaxSessions = 2
  None = None
SPECIFICATION FairSpec
INVARIANTS NoSilentLoss InStep
PROPERTIES DeletedOnlyWhenWritten DeletedStaysGone OutboxDrains
CHECK_DEADLOCK FALSE
