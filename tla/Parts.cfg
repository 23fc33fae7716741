\* One application thread and one pool thread; a table that grows three times.
\* Polls of the Win32 queue with deadlines, its requests reused.  Deadlines of
\* every kind for the poll over epoll, mixed, rejected ones included.
CONSTANTS
  App = {m}
  Workers = {w}
  SigUsed = {"INT", "BADOP"}
  RaiseSet = {"SIGINT", "SIGILL", "SIGCHLD"}
  MaxOn = 2
  InitRace = FALSE
  NoSig = none
  Handles <- SomeHandles
  PStates = {{}, {"IN"}, {"ERR"}, {"NVAL"}}
  MinCap = 1
  NoIdx = none
  NoUdata = nil
  MaxGroups <- GroupBounds
  MaxOdd = 2
  MaxArgs = 2
  MaxChars = 4
  MaxAddrs = 4
  Reqs = {r1, r2}
  Codes = {OK, EIO}
  NoCode = NoCode
  NoReq = NoReq
  Deadline = TRUE
  PerSec = 4
  PerMs = 2
  Deltas <- Ahead
  None = None
  MaxReady = 2
SPECIFICATION AllSpec
INVARIANTS TypeOK OwnershipKept SignalsAgree ActiveKillsOnlyAtStart
INVARIANTS ListIsInterest CellsMatch OverrunBounded ReportsTruth AddrExact CmdlineExact
INVARIANTS FTypeOK DTypeOK TimeExact TimerAssert
PROPERTIES ImplementsCompletions AllDelivered NotEarly DeadlineHonoured
CHECK_DEADLOCK FALSE
