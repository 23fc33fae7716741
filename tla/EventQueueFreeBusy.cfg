\* Requests are freed at any time, as inc/yaooi/queue.h:38 allows.
CONSTANTS
  Reqs = {r1, r2}
  OK = OK
  ECANCELED = ECANCELED
  Codes = {OK, ECANCELED}
  NoCode = NoCode
  NoReq = NoReq
  Loop = Loop
  Frees = {"new", "ret", "lib"}
  PipeCap = 2
  Chunk = 1
SPECIFICATION Spec
INVARIANT NoTouchAfterFree
CHECK_DEADLOCK FALSE
