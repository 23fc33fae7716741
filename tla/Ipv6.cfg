\* Addresses of up to nine groups.
CONSTANTS
  App = {m}
  Workers = {w}
  SigUsed = {"INT", "BADOP"}
  RaiseSet = {"SIGINT", "SIGILL", "SIGCHLD"}
  MaxOn = 2
  InitRace = FALSE
  NoSig = none
  Handles <- SomeHandles
  PStates = {{}, {"IN"}, {"ERR"}, {"NVAL"}}
  MinCap = 1
  NoIdx = none
  NoUdata = nil
  MaxGroups <- GroupBounds
  MaxOdd = 2
  MaxArgs = 2
  MaxChars = 4
  MaxAddrs = 4
SPECIFICATION Spec
INVARIANT Ipv6Compressed
CHECK_DEADLOCK FALSE
