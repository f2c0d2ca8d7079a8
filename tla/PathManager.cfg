SPECIFICATION FairSpec
CONSTANTS
  Endpoints = {e1, e2, e3}
  Answering = {e1}
  None = None
  MaxCands = 2
  Probe = 1
  Keepalive = 1
  DirectDead = 1
  CandStale = 1
  Unmeasured = 9
  Uptime = 2
  MinRtt = 1
  MaxRtt = 1
INVARIANT RouteHeard
PROPERTY SwitchImproves
PROPERTY Upgrades
PROPERTY FallsBack
