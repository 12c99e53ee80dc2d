CONSTANTS
  Plain = {p1, p2}
  Writers <- MCWriters
  MaxSends <- ShortMaxSends
SPECIFICATION Spec
SYMMETRY PlainSymmetry
INVARIANTS NonceUsedOnce GapIsPermanent
PROPERTY PrefixDelivery
CHECK_DEADLOCK FALSE
