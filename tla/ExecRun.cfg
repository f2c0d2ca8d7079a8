SPECIFICATION FilterSpec
CONSTANTS
  Input = 3
  Gains = {0, 1}
  MaxStart = 1
  SockCap = 1
  Room = 1
  Window = 1
  PipeCap = 1
  KillAfter = 1
  MaxFaults = 1
INVARIANT RunInv
INVARIANT ExitIsLast
PROPERTY RunEnds
PROPERTY StraysEnd
