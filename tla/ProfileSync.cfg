CONSTANTS
  Requests = {r1, r2}
  Rewrites = {r2}
  MaxSessions = 2
  MaxPics = 4
  ClientName = Alice
  None = None
SPECIFICATION FairSpec
INVARIANTS NameArrives PictureArrives OnePicture OwnPicture
PROPERTIES ChangeArrives
CHECK_DEADLOCK FALSE
