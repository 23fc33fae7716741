\* Two references to one descriptor (yo_tty_in called twice).
CONSTANTS
  h1 = h1  h2 = h2  h3 = h3  r1 = r1  r2 = r2  r3 = r3  q1 = q1  f1 = f1  f2 = f2  f3 = f3
  Queues = {q1}
  Handles = {h1, h2, h3}
  Reqs = {r1, r2, r3}
  OsFds = {f1, f2, f3}
  OsFd <- SharedFd
  QueueOf <- OneQueue
  Kinds = {"READ", "WRITE"}
  Pollable = {f1, f2}
  Owned = {h3}
  CtlFail = FALSE
  MaxCount = 1
  NoReg = NoReg
  NoReq = NoReq
  NoHandle = NoHandle
SPECIFICATION Spec
INVARIANT ArmedWatched
