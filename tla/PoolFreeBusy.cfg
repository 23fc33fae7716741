\* A queue freed while a worker is busy.
CONSTANTS
  Reqs = {r1, r2}
  Workers = {w1, w2}
  NoReq = NoReq
  NoWorker = NoWorker
SPECIFICATION FairSpec
PROPERTY FreeReturns
CHECK_DEADLOCK FALSE
