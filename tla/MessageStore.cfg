CONSTANTS
  Senders = {s1}
  Receivers = {r1, r2}
  Arrivals = {a1}
  Getters = {g1, g2}
  Updaters = {u1, u2}
  Deleters = {d1, d2}
  Text = {t1, t2}
  None = None
SPECIFICATION SerialSpec
SYMMETRY StoreSymmetry
INVARIANTS CacheCoherent IndexCoherent DeletedIsGone
PROPERTIES NoOrphan
CHECK_DEADLOCK FALSE
