\* Requests of both kinds, submitted, cancelled and polled.
CONSTANTS
  r1 = r1
  r2 = r2
  Reqs = {r1, r2}
  LowZero <- OneAligned
  NULL = NULL
  Wild = Wild
SPECIFICATION Spec
INVARIANT ListSound
CHECK_DEADLOCK FALSE
