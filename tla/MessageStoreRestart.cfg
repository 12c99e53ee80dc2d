CONSTANTS
  Senders = {s1}
  Receivers = {}
  Arrivals = {}
  Getters = {}
  Updaters = {}
  Deleters = {}
  Text = {t1, t2}
  None = None
SPECIFICATION SerialSpec
INVARIANTS Searchable
CHECK_DEADLOCK FALSE
