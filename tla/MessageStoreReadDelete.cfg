CONSTANTS
  Senders = {}
  Receivers = {}
  Arrivals = {}
  Getters = {g1}
  Updaters = {}
  Deleters = {d1}
  Text = {t1, t2}
  None = None
SPECIFICATION Spec
INVARIANTS DeletedIsGone
CHECK_DEADLOCK FALSE
