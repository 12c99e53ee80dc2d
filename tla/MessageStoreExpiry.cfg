CONSTANTS
  Senders = {s1}
  Receivers = {}
  Arrivals = {}
  Getters = {g1}
  Updaters = {u1}
  Deleters = {d1}
  Text = {t1, t2}
  None = None
SPECIFICATION FairSpec
PROPERTIES StaleCopyExpires
CHECK_DEADLOCK FALSE
