\* A queue that is freed, among the calls of every backend.
CONSTANTS
  App = {m}
  Workers = {w}
  SigUsed = {"INT", "BADOP"}
  RaiseSet = {"SIGINT", "SIGILL", "SIGCHLD"}
  MaxOn = 2
  InitRace = FALSE
  NoSig = none
  Handles <- SomeHandles
  PStates = {{}, {"IN"}, {"ERR"}, {"NVAL"}}
  MinCap = 1
  NoIdx = none
  NoUdata = nil
  MaxGroups <- GroupBounds
  MaxOdd = 2
  MaxArgs = 2
  MaxChars = 4
  MaxAddrs = 4
SPECIFICATION Spec
INVARIANT QueueFreeFreesAll
CHECK_DEADLOCK FALSE
