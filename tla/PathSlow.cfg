SPECIFICATION FairSpec
CONSTANTS
  Endpoints = {e1}
  Answering = {e1}
  None = None
  MaxCands = 1
  Probe = 1
  Keepalive = 2
  DirectDead = 2
  CandStale = 2
  Unmeasured = 9
  Uptime = 3
  MinRtt = 2
  MaxRtt = 2
PROPERTY Upgrades
