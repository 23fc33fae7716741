\* Two requests submitted again and again, three workers; two overlapping
\* calls of yo_proc_spawn, each with no stream or all three.
CONSTANTS
  Reqs = {r1, r2}
  Workers = {w1, w2, w3}
  NoReq = NoReq
  NoWorker = NoWorker
  Calls = {c1, c2}
  StdSets <- Streams
SPECIFICATION ThreadsSpec
INVARIANTS TypeOK TaskHeldOnce NoSleepOnTask ListedAlive IdleFreeDefined
INVARIANTS CTypeOK NoDescriptorLeft NoZombie SuccessIsReal
PROPERTIES TasksComplete IdleFreeReturns SpawnReturns
CHECK_DEADLOCK FALSE
