CONSTANTS
  Plain = {p1}
  Writers <- MCWriters
  MaxSends <- ShortMaxSends
SPECIFICATION FairSpec
PROPERTIES SentArrives
CHECK_DEADLOCK FALSE
