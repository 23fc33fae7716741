\* Polls without deadlines.
CONSTANTS
  r1 = r1  r2 = r2  OK = OK  EIO = EIO
  Reqs = {r1, r2}
  Codes = {OK, EIO}
  NoCode = NoCode
  NoReq = NoReq
  Deadline = FALSE
SPECIFICATION FairFSpec
PROPERTY AllDelivered
CHECK_DEADLOCK FALSE
