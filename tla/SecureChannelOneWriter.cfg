CONSTANTS
  Plain = {p1}
  Writers <- OneWriter
  MaxSends <- MCMaxSends
SPECIFICATION FairSpec
INVARIANTS NothingRefused
PROPERTIES SentArrives EndsForBoth
CHECK_DEADLOCK FALSE
