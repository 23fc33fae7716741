\* Workers, fds, inline completions and closes; freed addresses are reused.
CONSTANTS
  Reqs = {r1, r2}
  OK = OK
  ECANCELED = ECANCELED
  Codes = {OK, ECANCELED}
  NoCode = NoCode
  NoReq = NoReq
  Loop = Loop
  Frees = {"new", "ret"}
  PipeCap = 2
  Chunk = 1
SPECIFICATION FairSpec
INVARIANTS TypeOK NoLostWakeup OnePlace NoTouchAfterFree
PROPERTIES ImplementsCompletions AllDelivered
\* A loop that waits only for requests whose thread never started waits for ever.
CHECK_DEADLOCK FALSE
