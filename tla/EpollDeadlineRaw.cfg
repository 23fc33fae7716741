\* Deadlines as yo_timeadd may leave them.
CONSTANTS
  PerSec = 4
  PerMs = 2
  Deltas <- Ahead
  None = None
  MaxReady = 2
SPECIFICATION FairDSpec
PROPERTY AnyDeadlineHonoured
