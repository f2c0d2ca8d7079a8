SPECIFICATION Spec
CONSTANTS
  Endpoints = {e1}
  Answering = {e1}
  None = None
  MaxCands = 1
  Probe = 1
  Keepalive = 2
  DirectDead = 2
  CandStale = 2
  Unmeasured = 9
  Uptime = 6
  MinRtt = 1
  MaxRtt = 2
INVARIANT SamplesReal
