CONSTANTS
  Senders = {}
  Receivers = {}
  Arrivals = {}
  Getters = {}
  Updaters = {u1}
  Deleters = {d1}
  Text = {t1, t2}
  None = None
SPECIFICATION Spec
INVARIANTS NotResurrected
CHECK_DEADLOCK FALSE
