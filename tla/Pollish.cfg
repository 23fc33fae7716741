\* One queue; a borrowed and an owned handle on sockets, an owned one on a
\* file that epoll refuses; epoll_ctl may fail.
CONSTANTS
  h1 = h1  h2 = h2  h3 = h3  r1 = r1  r2 = r2  r3 = r3  q1 = q1  f1 = f1  f2 = f2  f3 = f3
  Queues = {q1}
  Handles = {h1, h2, h3}
  Reqs = {r1, r2, r3}
  OsFds = {f1, f2, f3}
  OsFd <- OwnFds
  QueueOf <- OneQueue
  Kinds = {"READ", "WRITE"}
  Pollable = {f1, f2}
  Owned = {h2, h3}
  CtlFail = TRUE
  MaxCount = 1
  NoReg = NoReg
  NoReq = NoReq
  NoHandle = NoHandle
SYMMETRY ReqSymmetry
SPECIFICATION Spec
INVARIANTS TypeOK CountsMatch NoSpin ArmedWatched
